---- MODULE Spec2Model ----
(***************************************************************************)
(* Model of the backend chat sessions of azor-chatdog-ts and of the        *)
(* interactive main loop that drives them.                                 *)
(*                                                                         *)
(*   OllamaChatSession         src/src/llm/ollamaClient.ts                 *)
(*   GeminiChatSessionWrapper  src/unnamed/part_010 (geminiClient.ts)      *)
(*   LlamaChatSession          src/unnamed/part_010 (llamaClient.ts)       *)
(*   MCPClient.executeTool     src/src/mcp/client.ts                       *)
(*   mainLoop                  src/src/chat.ts                             *)
(*                                                                         *)
(* One behaviour is the life of one session of one variant.  A step is the *)
(* code that runs between two awaits: a state with pc = "request" is a     *)
(* session waiting for the answer of a backend request it has already      *)
(* sent.  The backend, the tool subprocess and the user are the            *)
(* environment: their answers are drawn with \E from small sets.           *)
(***************************************************************************)
EXTENDS Integers, Sequences, FiniteSets, TLC

----------------------------------------------------------------------------
(* Bounds of the model *)

\* sendMessage calls made on the session during one behaviour
MaxSends == 2

\* tool-call batches the backend returns during one behaviour
MaxRounds == 1

\* calls in one tool-call batch (and handler calls in one opaque prompt)
MaxBatch == 2

\* messages in the history a session is constructed with
MaxPrior == 4

\* sendMessage calls during one behaviour of mainLoop over a session seen
\* through its interface alone
MaxLoopSends == 8

\* operations of the MCP client during one behaviour
MaxOps == 6

\* characters of a filename argument before its extension
MaxStem == 2

\* declarations of a tool catalog
MaxCatalog == 2

\* /assistant switch commands during one behaviour
MaxSwitches == 1

\* the lines with a command one behaviour reads
MaxCommands == 1

\* executeTool calls that run at the same time
NumTasks == 2

----------------------------------------------------------------------------
(* Program constants *)

CLARIFICATION_TOOL_NAME == "request_clarification"

MAX_CLARIFICATION_ROUNDS == 5

\* the fixed fallback text of the two catch blocks
ErrorText == "Przepraszam, wystapil blad podczas generowania odpowiedzi."

\* names of the canonical catalog, in catalog order
azorTools == <<"list_threads", "delete_thread", "get_thread_data", "request_clarification">>

----------------------------------------------------------------------------
(* Inputs of the environment *)

Variants == {"ollama", "gemini", "llama"}

\* non-empty, non-command lines typed by the user
UserTexts == {"hi"}

\* final texts the model produces
ModelTexts == {"ans"}

\* raw texts the llama runtime returns, before trim()
RawTexts == {"ans "}

SystemInstructions == {"sys"}

\* the system prompts of the assistants of the registry
SystemPrompts == {"sys", "sys2"}

\* texts of the messages of an earlier conversation, in order
PriorText == <<"q1", "a1", "q2", "a2", "q3", "a3">>

\* tool names the model asks for: one the dispatcher knows, one it does not
\* know (get_thread_data has no case in executeTool), and the reserved name
CallNames == {"list_threads", "get_thread_data", "request_clarification"}

\* the question argument of a request_clarification call; "" stands for a
\* missing or empty question
Questions == {"", "which"}

Call(n, q) == [name |-> n, question |-> q]

Calls ==
    {Call(n, "") : n \in CallNames \ {CLARIFICATION_TOOL_NAME}}
        \cup {Call(CLARIFICATION_TOOL_NAME, q) : q \in Questions}

SeqsUpTo(S, n) == UNION {[1..k -> S] : k \in 0..n}

\* the model asks for each call at most once in a batch
Distinct(s) == \A i, j \in 1..Len(s) : i # j => s[i] # s[j]

Batches == {s \in SeqsUpTo(Calls, MaxBatch) : Distinct(s)}

\* tool calls in the answer to a request that declared no tools
UnsolicitedBatches == SeqsUpTo(Calls, 1)

----------------------------------------------------------------------------
(* Values *)

Message(role, text) == [role |-> role, text |-> text]

OllamaMessage(role, content, calls, tool) ==
    [role |-> role, content |-> content, tool_calls |-> calls, tool_name |-> tool]

NoResponse == [kind |-> "none", text |-> "", question |-> ""]
TextResponse(t) == [kind |-> "text", text |-> t, question |-> ""]
ClarificationResponse(q) == [kind |-> "clarification", text |-> "", question |-> q]
Thrown == [kind |-> "thrown", text |-> "", question |-> ""]

\* answers of the backend
NoAnswer == [kind |-> "none", calls |-> <<>>]
MessageAnswer(calls) == [kind |-> "message", calls |-> calls]
UnsupportedAnswer == [kind |-> "unsupported", calls |-> <<>>]
ErrorAnswer == [kind |-> "error", calls |-> <<>>]

\* the ConversationHistory of an earlier conversation of n messages
PriorHistory(n) ==
    [i \in 1..n |-> Message(IF i % 2 = 1 THEN "user" ELSE "model", PriorText[i])]

PriorHistories == {PriorHistory(n) : n \in 1..MaxPrior}

----------------------------------------------------------------------------
VARIABLES
    variant,                \* which session class this session is
    systemInstruction,      \* constructor argument
    nativeHistory,          \* history the SDK or native session was created with
    toolsEnabled,           \* constructor argument enableTools
    toolsSupported,         \* OllamaChatSession.toolsSupported
    history,                \* _history of the Ollama and Llama sessions
    ollamaMessages,         \* OllamaChatSession._ollamaMessages
    pendingClarification,   \* LlamaChatSession.pendingClarification ("" = null)
    pc,                     \* where the running sendMessage is waiting
    toolCalls,              \* the batch being dispatched
    callIdx,                \* position of the for loop in the batch
    toolMessages,           \* results collected for the batch so far
    clarificationQuestion,  \* local of executeToolCalls ("" = undefined)
    round,                  \* batches received in the running sendMessage
    batches,                \* batches received by the session so far
    response,               \* what the last sendMessage returned
    requests,               \* every invocation of the backend, in order
    executed,               \* every mcpClient.executeTool call, in order
    unsupportedSeen,        \* the backend has answered "does not support tools"
    backend,                \* the last answer of the backend in this sendMessage
    mlpc,                   \* where mainLoop is
    currentInput,           \* mainLoop local
    clarificationRounds,    \* mainLoop local
    sends,                  \* sendMessage calls made so far
    lastTurn,               \* how the last turn of mainLoop ended
    histLen,                \* length of history when the running sendMessage was called
    sendsAtInput,           \* value of sends when the last line was read at the main prompt
    switchedAt,             \* length of the history at each /assistant switch so far
    userInput,              \* mainLoop local: the line read at the main prompt
    isFirstMessage,         \* mainLoop local
    title,                  \* ChatSession._title of the current session
    generated,              \* the prompts generateTitleFromPrompt was called with, in order
    saved,                  \* session.saveToFile calls made since the last line was read
    cleanups,               \* manager.cleanupAndSave calls made by mainLoop
    shouldExit,             \* what the last handleCommand returned
    assistantId,            \* assistantId of the current session
    printed,                \* what the last handleCommand printed: its branch
    commands,               \* handleCommand calls made so far
    connected,              \* MCPClient.connected
    client,                 \* MCPClient.client: the Client object held (0 = null)
    transport,              \* MCPClient.transport: its transport (0 = null)
    created,                \* Client objects created so far; they are numbered 1..created
    live,                   \* the Client objects whose subprocess connection is up
    mcpPc,                  \* where the running MCPClient operation is waiting
    mcpOp,                  \* the running MCPClient operation
    used,                   \* the Client the running tool execution calls
    ops,                    \* MCPClient operations started so far
    lastTool,               \* the last executeTool call: its name and the branch of the switch it took
    tasks,                  \* the executeTool calls that run at the same time, each with its position
    files,                  \* the paths under LOG_DIR at which a file exists
    serverReq,              \* the last call of a tool of the MCP server
    fsLog,                  \* the file system calls that tool call has made
    output,                 \* what that tool call returned
    declarations,           \* the catalog handed to the schema adapters
    geminiOut,              \* the Gemini tool configuration built from it
    llamaOut,               \* what convertToLlamaTools returned for it
    ollamaOut               \* what convertToOllamaTools returned for it

sessionVars == <<variant, systemInstruction, nativeHistory, toolsEnabled, toolsSupported, history,
                 ollamaMessages, pendingClarification>>
callVars == <<pc, toolCalls, callIdx, toolMessages, clarificationQuestion, round, batches,
             response>>
logVars == <<requests, executed, unsupportedSeen, backend>>
mainVars == <<mlpc, currentInput, clarificationRounds, sends, lastTurn>>
loopVars == <<userInput, isFirstMessage, title, generated, saved, cleanups>>
cmdVars == <<shouldExit, assistantId, printed, commands>>
markVars == <<histLen, sendsAtInput, switchedAt, loopVars, cmdVars>>
chatVars == <<sessionVars, callVars, logVars, mainVars, markVars>>
mcpVars == <<connected, client, transport, created, live, mcpPc, mcpOp, used, ops, lastTool, tasks>>
serverVars == <<files, serverReq, fsLog, output>>
adapterVars == <<declarations, geminiOut, llamaOut, ollamaOut>>
sideVars == <<mcpVars, serverVars, adapterVars>>

vars == <<variant, systemInstruction, nativeHistory, toolsEnabled, toolsSupported, history,
          ollamaMessages, pendingClarification, pc, toolCalls, callIdx, toolMessages,
          clarificationQuestion, round, batches, response, requests, executed,
          unsupportedSeen, backend, mlpc, currentInput, clarificationRounds, sends, lastTurn,
          histLen, sendsAtInput, switchedAt,
          userInput, isFirstMessage, title, generated, saved, cleanups,
          shouldExit, assistantId, printed, commands,
          connected, client, transport, created, live, mcpPc, mcpOp, used, ops, lastTool, tasks,
          files, serverReq, fsLog, output,
          declarations, geminiOut, llamaOut, ollamaOut>>

----------------------------------------------------------------------------
(* MCPClient.executeTool: the names with a case reach the subprocess,      *)
(* which answers or fails; every other name throws 'Unknown tool'.         *)

executeToolOutcomes(name) ==
    IF name \in {"list_threads", "delete_thread"} THEN {"result", "error"} ELSE {"error"}

\* one record per executeTool call
Execution(name, idx) == [send |-> sends, round |-> round, name |-> name, idx |-> idx]

\* one record per backend invocation
Request(tools, retry, payload) ==
    [send |-> sends, round |-> round, tools |-> tools, retry |-> retry, payload |-> payload]

----------------------------------------------------------------------------
(* createChatSession of the three clients *)

\* chatHistoryToGeminiContent: one Content per message, in order
chatHistoryToGeminiContent(hist) ==
    [i \in 1..Len(hist) |-> [role |-> hist[i].role, parts |-> <<hist[i].text>>]]

\* the history createChatSession hands to the SDK or native session it
\* creates: GeminiClient passes the converted history to startChat,
\* LlamaClient creates the native session with the system prompt alone, and
\* OllamaClient creates no such session
createChatSession(v, hist) ==
    IF v = "gemini" THEN chatHistoryToGeminiContent(hist) ELSE <<>>

----------------------------------------------------------------------------
(* OllamaChatSession *)

\* the tools array handed to the constructor by createChatSession
tools == IF toolsEnabled THEN azorTools ELSE <<>>

initializeOllamaMessages(sys, hist) ==
    (IF sys # "" THEN <<OllamaMessage("system", sys, <<>>, "")>> ELSE <<>>)
        \o [i \in 1..Len(hist) |->
              OllamaMessage(IF hist[i].role = "model" THEN "assistant" ELSE "user",
                            hist[i].text, <<>>, "")]

\* makeOllamaRequest with the toolsSupported test left out
makeOllamaRequest_IgnoresSupported(includeTools, supported) ==
    includeTools /\ toolsEnabled /\ Len(tools) > 0

\* makeOllamaRequest: does the request body carry the tools key
makeOllamaRequest(includeTools, supported) ==
    includeTools /\ toolsEnabled /\ supported /\ Len(tools) > 0

\* sendMessage up to its first await: the user message goes to the history
\* and to the transcript, and the first request leaves
OllamaSendMessage ==
    /\ variant = "ollama"
    /\ mlpc = "send"
    /\ pc = "idle"
    /\ LET hist == Append(history, Message("user", currentInput))
           init == IF Len(ollamaMessages) = 0
                   THEN initializeOllamaMessages(systemInstruction, hist)
                   ELSE ollamaMessages
           msgs == Append(init, OllamaMessage("user", currentInput, <<>>, ""))
       IN /\ history' = hist
          /\ ollamaMessages' = msgs
          /\ requests' = Append(requests,
                 [send |-> sends + 1, round |-> 0, tools |-> makeOllamaRequest(TRUE, toolsSupported),
                  retry |-> FALSE, payload |-> msgs])
    /\ sends' = sends + 1
    /\ round' = 0
    /\ pc' = "request"
    /\ response' = NoResponse
    /\ backend' = NoAnswer
    /\ mlpc' = "await"
    /\ UNCHANGED <<variant, systemInstruction, nativeHistory, toolsEnabled, toolsSupported,
                   pendingClarification, toolCalls, callIdx, toolMessages,
                   clarificationQuestion, batches, executed, unsupportedSeen,
                   currentInput, clarificationRounds, lastTurn>>
    /\ histLen' = Len(history)
    /\ UNCHANGED <<sendsAtInput, switchedAt, loopVars, cmdVars, sideVars>>

\* OllamaHandleData with the toolsSupported test of line 306 left out
OllamaHandleData_IgnoresSupported(content, batch) ==
    IF toolsEnabled /\ Len(batch) > 0
    THEN /\ ollamaMessages' = Append(ollamaMessages,
                                     OllamaMessage("assistant", content, batch, ""))
         /\ toolCalls' = batch
         /\ callIdx' = 1
         /\ toolMessages' = <<>>
         /\ clarificationQuestion' = ""
         /\ round' = round + 1
         /\ batches' = batches + 1
         /\ pc' = "exec"
         /\ UNCHANGED <<history, response>>
    ELSE /\ ollamaMessages' = Append(ollamaMessages,
                                     OllamaMessage("assistant", content, <<>>, ""))
         /\ history' = Append(history, Message("model", content))
         /\ response' = TextResponse(content)
         /\ pc' = "returned"
         /\ UNCHANGED <<toolCalls, callIdx, toolMessages, clarificationQuestion, round, batches>>

\* OllamaHandleData that takes a response with a text for the final one,
\* tool calls or not
OllamaHandleData_TextIsFinal(content, batch) ==
    IF toolsEnabled /\ toolsSupported /\ Len(batch) > 0 /\ content = ""
    THEN /\ ollamaMessages' = Append(ollamaMessages,
                                     OllamaMessage("assistant", content, batch, ""))
         /\ toolCalls' = batch
         /\ callIdx' = 1
         /\ toolMessages' = <<>>
         /\ clarificationQuestion' = ""
         /\ round' = round + 1
         /\ batches' = batches + 1
         /\ pc' = "exec"
         /\ UNCHANGED <<history, response>>
    ELSE /\ ollamaMessages' = Append(ollamaMessages,
                                     OllamaMessage("assistant", content, <<>>, ""))
         /\ history' = Append(history, Message("model", content))
         /\ response' = TextResponse(content)
         /\ pc' = "returned"
         /\ UNCHANGED <<toolCalls, callIdx, toolMessages, clarificationQuestion, round, batches>>

\* lines 298-356: what sendMessage does with a response it has received
OllamaHandleData(content, batch) ==
    IF toolsEnabled /\ toolsSupported /\ Len(batch) > 0
    THEN /\ ollamaMessages' = Append(ollamaMessages,
                                     OllamaMessage("assistant", content, batch, ""))
         /\ toolCalls' = batch
         /\ callIdx' = 1
         /\ toolMessages' = <<>>
         /\ clarificationQuestion' = ""
         /\ round' = round + 1
         /\ batches' = batches + 1
         /\ pc' = "exec"
         /\ UNCHANGED <<history, response>>
    ELSE /\ ollamaMessages' = Append(ollamaMessages,
                                     OllamaMessage("assistant", content, <<>>, ""))
         /\ history' = Append(history, Message("model", content))
         /\ response' = TextResponse(content)
         /\ pc' = "returned"
         /\ UNCHANGED <<toolCalls, callIdx, toolMessages, clarificationQuestion, round, batches>>

\* the outer catch without the push of line 372
OllamaFallback_NoAppend ==
    /\ response' = TextResponse(ErrorText)
    /\ pc' = "returned"
    /\ UNCHANGED <<history, ollamaMessages, toolCalls, callIdx, toolMessages,
                   clarificationQuestion, round, batches>>

\* lines 358-374: the outer catch
OllamaFallback ==
    /\ history' = Append(history, Message("model", ErrorText))
    /\ response' = TextResponse(ErrorText)
    /\ pc' = "returned"
    /\ UNCHANGED <<ollamaMessages, toolCalls, callIdx, toolMessages,
                   clarificationQuestion, round, batches>>

\* the backend answers the request with a message
OllamaResponseOk ==
    /\ variant = "ollama"
    /\ pc = "request"
    /\ \E content \in ModelTexts,
          batch \in (IF toolsEnabled /\ toolsSupported THEN Batches ELSE UnsolicitedBatches) :
          /\ (toolsEnabled /\ toolsSupported /\ Len(batch) > 0) => batches < MaxRounds
          /\ backend' = MessageAnswer(batch)
          /\ OllamaHandleData(content, batch)
    /\ UNCHANGED <<variant, systemInstruction, nativeHistory, toolsEnabled, toolsSupported,
                   pendingClarification, requests, executed, unsupportedSeen, mainVars>>
    /\ UNCHANGED <<markVars, sideVars>>

\* OllamaResponseUnsupported that pushes the user message again for the retry
OllamaResponseUnsupported_PushesAgain ==
    /\ variant = "ollama"
    /\ pc = "request"
    /\ toolsSupported' = FALSE
    /\ unsupportedSeen' = TRUE
    /\ backend' = UnsupportedAnswer
    /\ history' = Append(history, Message("user", currentInput))
    /\ requests' = Append(requests, Request(makeOllamaRequest(FALSE, FALSE), TRUE,
                                            ollamaMessages))
    /\ pc' = "retry"
    /\ UNCHANGED <<variant, systemInstruction, nativeHistory, toolsEnabled, ollamaMessages,
                   pendingClarification, toolCalls, callIdx, toolMessages,
                   clarificationQuestion, round, batches, response, executed, mainVars>>
    /\ UNCHANGED <<markVars, sideVars>>

\* the backend answers 'does not support tools': the flag goes down and the
\* same transcript is sent again with includeTools = false
OllamaResponseUnsupported ==
    /\ variant = "ollama"
    /\ pc = "request"
    /\ toolsSupported' = FALSE
    /\ unsupportedSeen' = TRUE
    /\ backend' = UnsupportedAnswer
    /\ requests' = Append(requests, Request(makeOllamaRequest(FALSE, FALSE), TRUE,
                                            ollamaMessages))
    /\ pc' = "retry"
    /\ UNCHANGED <<variant, systemInstruction, nativeHistory, toolsEnabled, history, ollamaMessages,
                   pendingClarification, toolCalls, callIdx, toolMessages,
                   clarificationQuestion, round, batches, response, executed, mainVars>>
    /\ UNCHANGED <<markVars, sideVars>>

\* network error, abort on timeout, or another non-OK response
OllamaResponseError ==
    /\ variant = "ollama"
    /\ pc = "request"
    /\ backend' = ErrorAnswer
    /\ OllamaFallback
    /\ UNCHANGED <<variant, systemInstruction, nativeHistory, toolsEnabled, toolsSupported,
                   pendingClarification, requests, executed, unsupportedSeen, mainVars>>
    /\ UNCHANGED <<markVars, sideVars>>

\* the retry is answered with a message
OllamaRetryOk ==
    /\ variant = "ollama"
    /\ pc = "retry"
    /\ \E content \in ModelTexts,
          batch \in (IF toolsEnabled /\ toolsSupported THEN Batches ELSE UnsolicitedBatches) :
          /\ (toolsEnabled /\ toolsSupported /\ Len(batch) > 0) => batches < MaxRounds
          /\ backend' = MessageAnswer(batch)
          /\ OllamaHandleData(content, batch)
    /\ UNCHANGED <<variant, systemInstruction, nativeHistory, toolsEnabled, toolsSupported,
                   pendingClarification, requests, executed, unsupportedSeen, mainVars>>
    /\ UNCHANGED <<markVars, sideVars>>

\* the retry fails, with whatever error: it is thrown from inside the inner
\* catch and lands in the outer one
OllamaRetryError ==
    /\ variant = "ollama"
    /\ pc = "retry"
    /\ \E answer \in {ErrorAnswer, UnsupportedAnswer} : backend' = answer
    /\ OllamaFallback
    /\ UNCHANGED <<variant, systemInstruction, nativeHistory, toolsEnabled, toolsSupported,
                   pendingClarification, requests, executed, unsupportedSeen, mainVars>>
    /\ UNCHANGED <<markVars, sideVars>>

Reverse(seq) == [i \in 1..Len(seq) |-> seq[Len(seq) + 1 - i]]

\* OllamaAfterCall that pushes the tool messages in reverse order
OllamaAfterCall_Reversed(tm, cq) ==
    IF callIdx < Len(toolCalls)
    THEN /\ callIdx' = callIdx + 1
         /\ toolMessages' = tm
         /\ clarificationQuestion' = cq
         /\ UNCHANGED <<ollamaMessages, toolCalls, pc, response, requests>>
    ELSE LET msgs == ollamaMessages \o Reverse(tm) IN
         /\ ollamaMessages' = msgs
         /\ toolCalls' = <<>>
         /\ callIdx' = 0
         /\ toolMessages' = <<>>
         /\ clarificationQuestion' = ""
         /\ IF cq # ""
            THEN /\ response' = ClarificationResponse(cq)
                 /\ pc' = "returned"
                 /\ UNCHANGED requests
            ELSE /\ pc' = "request"
                 /\ requests' = Append(requests,
                                       Request(makeOllamaRequest(TRUE, toolsSupported), FALSE, msgs))
                 /\ UNCHANGED response

\* OllamaAfterCall without the early return of lines 325-331
OllamaAfterCall_NoEarlyReturn(tm, cq) ==
    IF callIdx < Len(toolCalls)
    THEN /\ callIdx' = callIdx + 1
         /\ toolMessages' = tm
         /\ clarificationQuestion' = cq
         /\ UNCHANGED <<ollamaMessages, toolCalls, pc, response, requests>>
    ELSE LET msgs == ollamaMessages \o tm IN
         /\ ollamaMessages' = msgs
         /\ toolCalls' = <<>>
         /\ callIdx' = 0
         /\ toolMessages' = <<>>
         /\ clarificationQuestion' = ""
         /\ pc' = "request"
         /\ requests' = Append(requests,
                               Request(makeOllamaRequest(TRUE, toolsSupported), FALSE, msgs))
         /\ UNCHANGED response

\* the end of one iteration of the for loop of executeToolCalls; after the
\* last call, lines 322-334 of sendMessage
OllamaAfterCall(tm, cq) ==
    IF callIdx < Len(toolCalls)
    THEN /\ callIdx' = callIdx + 1
         /\ toolMessages' = tm
         /\ clarificationQuestion' = cq
         /\ UNCHANGED <<ollamaMessages, toolCalls, pc, response, requests>>
    ELSE LET msgs == ollamaMessages \o tm IN
         /\ ollamaMessages' = msgs
         /\ toolCalls' = <<>>
         /\ callIdx' = 0
         /\ toolMessages' = <<>>
         /\ clarificationQuestion' = ""
         /\ IF cq # ""
            THEN /\ response' = ClarificationResponse(cq)
                 /\ pc' = "returned"
                 /\ UNCHANGED requests
            ELSE /\ pc' = "request"
                 /\ requests' = Append(requests,
                                       Request(makeOllamaRequest(TRUE, toolsSupported), FALSE, msgs))
                 /\ UNCHANGED response

\* executeToolCalls, a call named request_clarification (lines 214-229)
OllamaClarificationCall ==
    /\ variant = "ollama"
    /\ pc = "exec"
    /\ toolCalls[callIdx].name = CLARIFICATION_TOOL_NAME
    /\ LET question == toolCalls[callIdx].question IN
       IF question # ""
       THEN OllamaAfterCall(
                Append(toolMessages,
                       OllamaMessage("tool", "clarification_requested", <<>>,
                                     CLARIFICATION_TOOL_NAME)),
                question)
       ELSE OllamaAfterCall(toolMessages, clarificationQuestion)
    /\ UNCHANGED <<variant, systemInstruction, nativeHistory, toolsEnabled, toolsSupported, history,
                   pendingClarification, round, batches, executed, unsupportedSeen,
                   backend, mainVars>>
    /\ UNCHANGED <<markVars, sideVars>>

\* OllamaExecuteTool without the try/catch of lines 233-249: the error of
\* the tool lands in the outer catch of sendMessage
OllamaExecuteTool_NoCatch ==
    /\ variant = "ollama"
    /\ pc = "exec"
    /\ toolCalls[callIdx].name # CLARIFICATION_TOOL_NAME
    /\ LET toolName == toolCalls[callIdx].name IN
       /\ executed' = Append(executed, Execution(toolName, callIdx))
       /\ \E outcome \in executeToolOutcomes(toolName) :
             IF outcome = "error"
             THEN /\ history' = Append(history, Message("model", ErrorText))
                  /\ response' = TextResponse(ErrorText)
                  /\ pc' = "returned"
                  /\ UNCHANGED <<ollamaMessages, toolCalls, callIdx, toolMessages,
                                 clarificationQuestion, requests>>
             ELSE /\ OllamaAfterCall(
                         Append(toolMessages,
                                OllamaMessage("tool", outcome, <<>>, toolName)),
                         clarificationQuestion)
                  /\ UNCHANGED history
    /\ UNCHANGED <<variant, systemInstruction, nativeHistory, toolsEnabled, toolsSupported,
                   pendingClarification, round, batches, unsupportedSeen, backend,
                   mainVars>>
    /\ UNCHANGED <<markVars, sideVars>>

\* executeToolCalls, any other call (lines 231-249): the tool runs through
\* mcpClient.executeTool and its result or its error becomes a tool message
OllamaExecuteTool ==
    /\ variant = "ollama"
    /\ pc = "exec"
    /\ toolCalls[callIdx].name # CLARIFICATION_TOOL_NAME
    /\ LET toolName == toolCalls[callIdx].name IN
       /\ executed' = Append(executed, Execution(toolName, callIdx))
       /\ \E outcome \in executeToolOutcomes(toolName) :
             OllamaAfterCall(
                 Append(toolMessages, OllamaMessage("tool", outcome, <<>>, toolName)),
                 clarificationQuestion)
    /\ UNCHANGED <<variant, systemInstruction, nativeHistory, toolsEnabled, toolsSupported, history,
                   pendingClarification, round, batches, unsupportedSeen, backend,
                   mainVars>>
    /\ UNCHANGED <<markVars, sideVars>>

----------------------------------------------------------------------------
(* GeminiChatSessionWrapper.  The conversation history of this variant is  *)
(* kept by the SDK's ChatSession, not by the wrapper.                      *)

FunctionResponse(name, resp) == [name |-> name, response |-> resp]

IsClarification(call) == call.name = CLARIFICATION_TOOL_NAME
IsOther(call) == call.name # CLARIFICATION_TOOL_NAME

\* functionCalls.find(call => call.name === CLARIFICATION_TOOL_NAME):
\* the index of the first such call, 0 when there is none
FindClarification(calls) ==
    IF \E i \in 1..Len(calls) : IsClarification(calls[i])
    THEN CHOOSE i \in 1..Len(calls) :
            /\ IsClarification(calls[i])
            /\ \A j \in 1..(i - 1) : ~IsClarification(calls[j])
    ELSE 0

\* functionCalls.filter(call => call.name !== CLARIFICATION_TOOL_NAME)
OtherCalls(calls) == SelectSeq(calls, IsOther)

\* sendMessage up to its first await
GeminiSendMessage ==
    /\ variant = "gemini"
    /\ mlpc = "send"
    /\ pc = "idle"
    /\ requests' = Append(requests,
           [send |-> sends + 1, round |-> 0, tools |-> toolsEnabled, retry |-> FALSE,
            payload |-> <<currentInput>>])
    /\ sends' = sends + 1
    /\ round' = 0
    /\ pc' = "request"
    /\ response' = NoResponse
    /\ mlpc' = "await"
    /\ backend' = NoAnswer
    /\ UNCHANGED <<sessionVars, toolCalls, callIdx, toolMessages, clarificationQuestion,
                   batches, executed, unsupportedSeen, currentInput,
                   clarificationRounds, lastTurn>>
    /\ UNCHANGED <<markVars, sideVars>>

\* GeminiHandleResponse that looks for the clarification call only when
\* the batch holds no other call
GeminiHandleResponse_ExecutesFirst(content, functionCalls) ==
    LET clarificationCall == FindClarification(functionCalls)
        otherCalls == OtherCalls(functionCalls)
    IN IF ~toolsEnabled \/ Len(functionCalls) = 0
       THEN /\ response' = TextResponse(content)
            /\ pc' = "returned"
            /\ UNCHANGED <<toolCalls, callIdx, toolMessages, round, batches>>
       ELSE /\ round' = round + 1
            /\ batches' = batches + 1
            /\ IF Len(otherCalls) > 0
               THEN /\ toolCalls' = otherCalls
                    /\ callIdx' = 1
                    /\ toolMessages' = <<>>
                    /\ pc' = "exec"
                    /\ UNCHANGED response
               ELSE IF functionCalls[clarificationCall].question # ""
               THEN /\ response' =
                          ClarificationResponse(functionCalls[clarificationCall].question)
                    /\ pc' = "returned"
                    /\ UNCHANGED <<toolCalls, callIdx, toolMessages>>
               ELSE /\ response' = TextResponse(content)
                    /\ pc' = "returned"
                    /\ UNCHANGED <<toolCalls, callIdx, toolMessages>>

\* GeminiHandleResponse without the toolsEnabled test of line 49
GeminiHandleResponse_IgnoresEnabled(content, functionCalls) ==
    LET clarificationCall == FindClarification(functionCalls)
        otherCalls == OtherCalls(functionCalls)
    IN IF Len(functionCalls) = 0
       THEN /\ response' = TextResponse(content)
            /\ pc' = "returned"
            /\ UNCHANGED <<toolCalls, callIdx, toolMessages, round, batches>>
       ELSE /\ round' = round + 1
            /\ batches' = batches + 1
            /\ IF clarificationCall # 0 /\ functionCalls[clarificationCall].question # ""
               THEN /\ response' =
                          ClarificationResponse(functionCalls[clarificationCall].question)
                    /\ pc' = "returned"
                    /\ UNCHANGED <<toolCalls, callIdx, toolMessages>>
               ELSE IF Len(otherCalls) = 0
               THEN /\ response' = TextResponse(content)
                    /\ pc' = "returned"
                    /\ UNCHANGED <<toolCalls, callIdx, toolMessages>>
               ELSE /\ toolCalls' = otherCalls
                    /\ callIdx' = 1
                    /\ toolMessages' = <<>>
                    /\ pc' = "exec"
                    /\ UNCHANGED response

\* lines 50-98: one pass of the function calling loop over a response
GeminiHandleResponse(content, functionCalls) ==
    LET clarificationCall == FindClarification(functionCalls)
        otherCalls == OtherCalls(functionCalls)
    IN IF ~toolsEnabled \/ Len(functionCalls) = 0
       THEN /\ response' = TextResponse(content)
            /\ pc' = "returned"
            /\ UNCHANGED <<toolCalls, callIdx, toolMessages, round, batches>>
       ELSE /\ round' = round + 1
            /\ batches' = batches + 1
            /\ IF clarificationCall # 0 /\ functionCalls[clarificationCall].question # ""
               THEN /\ response' =
                          ClarificationResponse(functionCalls[clarificationCall].question)
                    /\ pc' = "returned"
                    /\ UNCHANGED <<toolCalls, callIdx, toolMessages>>
               ELSE IF Len(otherCalls) = 0
               THEN /\ response' = TextResponse(content)
                    /\ pc' = "returned"
                    /\ UNCHANGED <<toolCalls, callIdx, toolMessages>>
               ELSE /\ toolCalls' = otherCalls
                    /\ callIdx' = 1
                    /\ toolMessages' = <<>>
                    /\ pc' = "exec"
                    /\ UNCHANGED response

\* geminiSession.sendMessage resolves
GeminiResponseOk ==
    /\ variant = "gemini"
    /\ pc = "request"
    /\ \E content \in ModelTexts,
          functionCalls \in (IF toolsEnabled THEN Batches ELSE UnsolicitedBatches) :
          /\ (toolsEnabled /\ Len(functionCalls) > 0) => batches < MaxRounds
          /\ backend' = MessageAnswer(functionCalls)
          /\ GeminiHandleResponse(content, functionCalls)
    /\ UNCHANGED <<sessionVars, clarificationQuestion, requests, executed,
                   unsupportedSeen, mainVars>>
    /\ UNCHANGED <<markVars, sideVars>>

\* geminiSession.sendMessage rejects: nothing catches it in the wrapper
GeminiResponseError ==
    /\ variant = "gemini"
    /\ pc = "request"
    /\ response' = Thrown
    /\ pc' = "thrown"
    /\ backend' = ErrorAnswer
    /\ UNCHANGED <<sessionVars, toolCalls, callIdx, toolMessages, clarificationQuestion,
                   round, batches, requests, executed, unsupportedSeen, mainVars>>
    /\ UNCHANGED <<markVars, sideVars>>

\* executeFunctionCalls, one iteration of its for loop (lines 109-138);
\* after the last one, lines 89-91 send the responses to the model
GeminiExecuteTool ==
    /\ variant = "gemini"
    /\ pc = "exec"
    /\ LET name == toolCalls[callIdx].name IN
       /\ executed' = Append(executed, Execution(name, callIdx))
       /\ \E outcome \in executeToolOutcomes(name) :
             LET responses == Append(toolMessages, FunctionResponse(name, outcome)) IN
             IF callIdx < Len(toolCalls)
             THEN /\ callIdx' = callIdx + 1
                  /\ toolMessages' = responses
                  /\ UNCHANGED <<toolCalls, pc, requests>>
             ELSE /\ toolCalls' = <<>>
                  /\ callIdx' = 0
                  /\ toolMessages' = <<>>
                  /\ pc' = "request"
                  /\ requests' = Append(requests, Request(toolsEnabled, FALSE, responses))
    /\ UNCHANGED <<sessionVars, clarificationQuestion, round, batches, response,
                   unsupportedSeen, backend, mainVars>>
    /\ UNCHANGED <<markVars, sideVars>>

----------------------------------------------------------------------------
(* LlamaChatSession.  llamaSession.prompt is one opaque call during which  *)
(* the runtime calls the handlers of createToolsWithClarificationHandler.  *)

trim(raw) == IF raw = "ans " THEN "ans" ELSE raw

\* sendMessage up to its await on prompt (lines 425-453)
LlamaSendMessage ==
    /\ variant = "llama"
    /\ mlpc = "send"
    /\ pc = "idle"
    /\ history' = Append(history, Message("user", currentInput))
    /\ pendingClarification' = ""
    /\ requests' = Append(requests,
           [send |-> sends + 1, round |-> 0, tools |-> toolsEnabled, retry |-> FALSE,
            payload |-> <<currentInput>>])
    /\ sends' = sends + 1
    /\ round' = 0
    /\ callIdx' = 0
    /\ pc' = "prompt"
    /\ response' = NoResponse
    /\ mlpc' = "await"
    /\ backend' = NoAnswer
    /\ UNCHANGED <<variant, systemInstruction, nativeHistory, toolsEnabled, toolsSupported,
                   ollamaMessages, toolCalls, toolMessages, clarificationQuestion,
                   batches, executed, unsupportedSeen, currentInput,
                   clarificationRounds, lastTurn>>
    /\ histLen' = Len(history)
    /\ UNCHANGED <<sendsAtInput, switchedAt, loopVars, cmdVars, sideVars>>

\* the runtime may call one more handler: the calls made during one prompt
\* are one batch
LlamaMayCall ==
    /\ toolsEnabled
    /\ callIdx < MaxBatch
    /\ callIdx = 0 => batches < MaxRounds

LlamaCalled ==
    /\ callIdx' = callIdx + 1
    /\ round' = 1
    /\ batches' = (IF callIdx = 0 THEN batches + 1 ELSE batches)

\* the handler of request_clarification (lines 385-393)
LlamaClarificationHandler ==
    /\ variant = "llama"
    /\ pc = "prompt"
    /\ LlamaMayCall
    /\ \E question \in Questions : pendingClarification' = question
    /\ LlamaCalled
    /\ UNCHANGED <<variant, systemInstruction, nativeHistory, toolsEnabled, toolsSupported, history,
                   ollamaMessages, pc, toolCalls, toolMessages, clarificationQuestion,
                   response, logVars, mainVars>>
    /\ UNCHANGED <<markVars, sideVars>>

\* LlamaToolHandler when the catalog is copied without the special case of
\* lines 380-394: request_clarification gets the handler of the other tools
LlamaToolHandler_AnyName ==
    /\ variant = "llama"
    /\ pc = "prompt"
    /\ LlamaMayCall
    /\ \E name \in CallNames :
          /\ executed' = Append(executed,
                 [send |-> sends, round |-> 1, name |-> name, idx |-> callIdx + 1])
          /\ \E outcome \in executeToolOutcomes(name) :
                toolMessages' = Append(toolMessages, FunctionResponse(name, outcome))
    /\ LlamaCalled
    /\ UNCHANGED <<sessionVars, pc, toolCalls, clarificationQuestion,
                   response, requests, unsupportedSeen, backend, mainVars>>
    /\ UNCHANGED <<markVars, sideVars>>

\* the handler of every other tool (lines 400-412); its result or its
\* {error} goes back to the runtime
LlamaToolHandler ==
    /\ variant = "llama"
    /\ pc = "prompt"
    /\ LlamaMayCall
    /\ \E name \in CallNames \ {CLARIFICATION_TOOL_NAME} :
          /\ executed' = Append(executed,
                 [send |-> sends, round |-> 1, name |-> name, idx |-> callIdx + 1])
          /\ \E outcome \in executeToolOutcomes(name) :
                toolMessages' = Append(toolMessages, FunctionResponse(name, outcome))
    /\ LlamaCalled
    /\ UNCHANGED <<sessionVars, pc, toolCalls, clarificationQuestion,
                   response, requests, unsupportedSeen, backend, mainVars>>
    /\ UNCHANGED <<markVars, sideVars>>

\* prompt resolves (lines 455-477)
LlamaPromptReturn ==
    /\ variant = "llama"
    /\ pc = "prompt"
    /\ \E raw \in RawTexts :
          IF pendingClarification # ""
          THEN /\ response' = ClarificationResponse(pendingClarification)
               /\ pendingClarification' = ""
               /\ UNCHANGED history
          ELSE /\ history' = Append(history, Message("model", trim(raw)))
               /\ response' = TextResponse(trim(raw))
               /\ UNCHANGED pendingClarification
    /\ pc' = "returned"
    /\ callIdx' = 0
    /\ toolMessages' = <<>>
    /\ backend' = MessageAnswer(<<>>)
    /\ UNCHANGED <<variant, systemInstruction, nativeHistory, toolsEnabled, toolsSupported,
                   ollamaMessages, toolCalls, clarificationQuestion, round, batches,
                   requests, executed, unsupportedSeen, mainVars>>
    /\ UNCHANGED <<markVars, sideVars>>

\* prompt rejects (lines 478-489)
LlamaPromptError ==
    /\ variant = "llama"
    /\ pc = "prompt"
    /\ history' = Append(history, Message("model", ErrorText))
    /\ response' = TextResponse(ErrorText)
    /\ pc' = "returned"
    /\ callIdx' = 0
    /\ toolMessages' = <<>>
    /\ backend' = ErrorAnswer
    /\ UNCHANGED <<variant, systemInstruction, nativeHistory, toolsEnabled, toolsSupported,
                   ollamaMessages, pendingClarification, toolCalls,
                   clarificationQuestion, round, batches, requests, executed,
                   unsupportedSeen, mainVars>>
    /\ UNCHANGED <<markVars, sideVars>>

----------------------------------------------------------------------------
(* mainLoop *)

\* the sendMessage calls one behaviour may make
SendLimit == IF variant = "any" THEN MaxLoopSends ELSE MaxSends

\* session.sendMessage of a session of any backend, seen through the
\* LLMChatSession interface alone: the call returns a text, returns a
\* clarification request, or throws
SessionSendMessage ==
    /\ variant = "any"
    /\ mlpc = "send"
    /\ pc = "idle"
    /\ sends' = sends + 1
    /\ \E r \in {TextResponse(t) : t \in ModelTexts}
                 \cup {ClarificationResponse(q) : q \in Questions \ {""}}
                 \cup {Thrown} :
          /\ response' = r
          /\ pc' = (IF r = Thrown THEN "thrown" ELSE "returned")
    /\ mlpc' = "await"
    /\ UNCHANGED <<sessionVars, toolCalls, callIdx, toolMessages, clarificationQuestion,
                   round, batches, logVars, currentInput, clarificationRounds, lastTurn,
                   markVars, sideVars>>

\* ChatSession.isEmpty: the session was created without a history and no
\* message has been sent to it
isEmpty == history = <<>> /\ sends = 0

NoTitle == [by |-> "nobody", text |-> ""]

\* generateTitleFromPrompt (src/src/utils/errorUtils.ts lines 101-114): the
\* title the model gives for the prompt or, without one, the first words of
\* the prompt; a title comes back in both cases
generateTitleFromPrompt(prompt) == [by |-> "auto", text |-> prompt]

\* the end of a turn that saves the session after an answer only
EndOfTurn_SavesAnswersOnly ==
    /\ IF response.text # "" /\ isFirstMessage
       THEN /\ title' = generateTitleFromPrompt(userInput)
            /\ generated' = Append(generated, userInput)
       ELSE UNCHANGED <<title, generated>>
    /\ saved' = (IF response.text # "" THEN saved + 1 ELSE saved)

\* lines 115-139: a response with a text gives the session its title when
\* the message was the first one, and the session is saved
EndOfTurn ==
    /\ IF response.text # "" /\ isFirstMessage
       THEN /\ title' = generateTitleFromPrompt(userInput)
            /\ generated' = Append(generated, userInput)
       ELSE UNCHANGED <<title, generated>>
    /\ saved' = saved + 1

\* MainLoopResponse without the test of lines 86-91
MainLoopResponse_NoLimit ==
    /\ mlpc = "await"
    /\ pc = "returned"
    /\ pc' = "idle"
    /\ IF response.kind = "clarification"
       THEN /\ clarificationRounds' = clarificationRounds + 1
            /\ mlpc' = "clarify"
            /\ UNCHANGED <<lastTurn, title, generated, saved>>
       ELSE /\ mlpc' = "input"
            /\ lastTurn' = "answer"
            /\ EndOfTurn
            /\ UNCHANGED clarificationRounds
    /\ UNCHANGED <<sessionVars, toolCalls, callIdx, toolMessages, clarificationQuestion,
                   round, batches, response, logVars, currentInput, sends>>
    /\ UNCHANGED <<histLen, sendsAtInput, switchedAt, userInput, isFirstMessage, cleanups,
                   cmdVars, sideVars>>

\* a line of text read at the main prompt (lines 53-76)
MainLoopInput ==
    /\ mlpc = "input"
    /\ sends < SendLimit
    /\ \E line \in UserTexts :
          /\ userInput' = line
          /\ currentInput' = line
    /\ isFirstMessage' = isEmpty
    /\ clarificationRounds' = 0
    /\ saved' = 0
    /\ mlpc' = "send"
    /\ UNCHANGED <<sessionVars, callVars, logVars, sends, lastTurn>>
    /\ sendsAtInput' = sends
    /\ UNCHANGED <<histLen, switchedAt, title, generated, cleanups, cmdVars, sideVars>>

\* sendMessage has returned (lines 83-139)
MainLoopResponse ==
    /\ mlpc = "await"
    /\ pc = "returned"
    /\ pc' = "idle"
    /\ IF response.kind = "clarification"
       THEN /\ clarificationRounds' = clarificationRounds + 1
            /\ IF clarificationRounds + 1 > MAX_CLARIFICATION_ROUNDS
               THEN /\ mlpc' = "input"
                    /\ lastTurn' = "exhausted"
                    /\ EndOfTurn
               ELSE /\ mlpc' = "clarify"
                    /\ UNCHANGED <<lastTurn, title, generated, saved>>
       ELSE /\ mlpc' = "input"
            /\ lastTurn' = "answer"
            /\ EndOfTurn
            /\ UNCHANGED clarificationRounds
    /\ UNCHANGED <<sessionVars, toolCalls, callIdx, toolMessages, clarificationQuestion,
                   round, batches, response, logVars, currentInput, sends>>
    /\ UNCHANGED <<histLen, sendsAtInput, switchedAt, userInput, isFirstMessage, cleanups,
                   cmdVars, sideVars>>

\* the user answers the clarification question (lines 99-108)
MainLoopClarification ==
    /\ mlpc = "clarify"
    /\ sends < SendLimit
    /\ \E clarification \in UserTexts : currentInput' = clarification
    /\ mlpc' = "send"
    /\ UNCHANGED <<sessionVars, callVars, logVars, clarificationRounds, sends, lastTurn>>
    /\ UNCHANGED <<markVars, sideVars>>

\* the user answers with an empty line (lines 101-104)
MainLoopCancel ==
    /\ mlpc = "clarify"
    /\ mlpc' = "input"
    /\ lastTurn' = "cancelled"
    /\ EndOfTurn
    /\ UNCHANGED <<sessionVars, callVars, logVars, currentInput, clarificationRounds, sends>>
    /\ UNCHANGED <<histLen, sendsAtInput, switchedAt, userInput, isFirstMessage, cleanups,
                   cmdVars, sideVars>>

\* sendMessage has thrown (lines 140-162): the loop is left, and
\* cleanupAndSave runs before mainLoop returns
MainLoopCatch ==
    /\ mlpc = "await"
    /\ pc = "thrown"
    /\ mlpc' = "exited"
    /\ lastTurn' = "error"
    /\ cleanups' = cleanups + 1
    /\ UNCHANGED <<sessionVars, callVars, logVars, currentInput, clarificationRounds, sends>>
    /\ UNCHANGED <<histLen, sendsAtInput, switchedAt, userInput, isFirstMessage, title,
                   generated, saved, cmdVars, sideVars>>

----------------------------------------------------------------------------
(* handleCommand (src/src/commandHandler.ts): a line is held as it was     *)
(* typed; its words are the parts that split(/\s+/) gives.                 *)

\* the lines typed at the main prompt that begin with a slash, in words
CommandParts ==
    {<<"/exit">>, <<"/QUIT", "now">>, <<"/help">>, <<"/foo">>, <<"/exits">>,
     <<"/switch">>, <<"/switch", "a", "b">>, <<"/pdf">>,
     <<"/session">>, <<"/session", "list">>, <<"/session", "bogus">>,
     <<"/session", "rename">>, <<"/session", "RENAME", "my", "title">>,
     <<"/assistant">>, <<"/assistant", "list">>, <<"/assistant", "bogus">>,
     <<"/assistant", "switch">>, <<"/assistant", "switch", "azor">>,
     <<"/assistant", "Switch", "BIZNESMEN">>, <<"/assistant", "switch", "nobody">>,
     <<"/assistant", "switch", "constructor">>}

RECURSIVE join(_)
\* Array.prototype.join(' ')
join(parts) ==
    IF parts = <<>> THEN ""
    ELSE IF Len(parts) = 1 THEN parts[1]
    ELSE parts[1] \o " " \o join(Tail(parts))

CommandLines == {join(parts) : parts \in CommandParts}

\* userInput.split(/\s+/) of a trimmed line: the words that, joined by
\* blanks, give the line
split(line) == CHOOSE parts \in CommandParts : join(parts) = line

\* String.prototype.toLowerCase on the words typed
toLowerCase(word) ==
    CASE word = "/QUIT" -> "/quit"
      [] word = "RENAME" -> "rename"
      [] word = "Switch" -> "switch"
      [] word = "BIZNESMEN" -> "biznesmen"
      [] OTHER -> word

\* commandHandler.ts line 11
VALID_SLASH_COMMANDS ==
    {"/exit", "/quit", "/switch", "/help", "/session", "/pdf", "/assistant"}

\* the keys of the object literal AVAILABLE_ASSISTANTS (assistants.ts lines 21-76)
AssistantIds == {"azor", "biznesmen", "optymista", "angel_investor", "sparing_partner"}

\* the lower-case property names the object literal inherits from
\* Object.prototype: a lookup by such a name gives a value that is not
\* undefined
InheritedKeys == {"constructor", "__proto__"}

\* the assistant of a session made without --assistant (azor.ts)
DefaultAssistant == "azor"

\* getAssistantById (assistants.ts lines 84-97): the value found under the
\* lower-cased id, and a throw when the lookup gives undefined.  The value
\* found under an inherited name is not a definition: its id is undefined.
getAssistantById(id) ==
    LET normalizedId == toLowerCase(id) IN
    IF normalizedId \in AssistantIds
    THEN [thrown |-> FALSE, id |-> normalizedId]
    ELSE IF normalizedId \in InheritedKeys
         THEN [thrown |-> FALSE, id |-> "undefined"]
         ELSE [thrown |-> TRUE, id |-> ""]

\* what a call of handleCommand did: its return value, the branch that
\* printed, the assistant and the title of the session afterwards, and
\* whether the session was rebuilt on its history
Outcome(returns, branch, id, t, rebuilt) ==
    [returns |-> returns, printed |-> branch, assistantId |-> id, title |-> t,
     rebuilt |-> rebuilt]

\* the branches that print with printError
ErrorBranches ==
    {"unknown command", "switch usage", "session usage", "unknown session subcommand",
     "empty title", "assistant usage", "assistant switch usage", "switch failed",
     "unknown assistant subcommand"}

\* renameSessionCommand (src/src/commands/sessionRename.ts lines 12-34)
renameSessionCommand(newTitle, id, t) ==
    IF newTitle = ""
    THEN Outcome(FALSE, "empty title", id, t, FALSE)
    ELSE Outcome(FALSE, "renamed", id, [by |-> "user", text |-> newTitle], FALSE)

\* handleSessionSubcommand (commandHandler.ts lines 107-148) for the
\* subcommands list, display and rename and for a word that is none
handleSessionSubcommand(parts, id, t) ==
    LET subcommand == toLowerCase(parts[1]) IN
    CASE subcommand \in {"list", "display"} -> Outcome(FALSE, "shown", id, t, FALSE)
      [] subcommand = "rename" -> renameSessionCommand(join(Tail(parts)), id, t)
      [] OTHER -> Outcome(FALSE, "unknown session subcommand", id, t, FALSE)

\* handleAssistantSubcommand (commandHandler.ts lines 153-197);
\* SessionManager.switchAssistantInCurrentSession makes the assistant from
\* the id with getAssistantById and puts it in the place of the current one
handleAssistantSubcommand(parts, id, t) ==
    LET subcommand == toLowerCase(parts[1]) IN
    CASE subcommand = "list" -> Outcome(FALSE, "shown", id, t, FALSE)
      [] subcommand = "switch" ->
            IF Len(parts) < 2
            THEN Outcome(FALSE, "assistant switch usage", id, t, FALSE)
            ELSE LET wanted == toLowerCase(parts[2]) IN
                 IF wanted = id
                 THEN Outcome(FALSE, "already active", id, t, FALSE)
                 ELSE LET def == getAssistantById(wanted) IN
                      IF def.thrown
                      THEN Outcome(FALSE, "switch failed", id, t, FALSE)
                      ELSE Outcome(FALSE, "switched", def.id, t, TRUE)
      [] OTHER -> Outcome(FALSE, "unknown assistant subcommand", id, t, FALSE)

\* handleCommand that takes the command word as it was typed
handleCommand_CaseSensitive(line, id, t) ==
    LET parts == split(line)
        command == parts[1]
    IN IF command \notin VALID_SLASH_COMMANDS
       THEN Outcome(FALSE, "unknown command", id, t, FALSE)
       ELSE IF command \in {"/exit", "/quit"}
            THEN Outcome(TRUE, "exit", id, t, FALSE)
            ELSE Outcome(FALSE, "shown", id, t, FALSE)

\* handleCommand (commandHandler.ts lines 16-102).  /switch is typed
\* without a session id, and the search ends without a choice, or with
\* too many words.
handleCommand(line, id, t) ==
    LET parts == split(line)
        command == toLowerCase(parts[1])
    IN IF command \notin VALID_SLASH_COMMANDS
       THEN Outcome(FALSE, "unknown command", id, t, FALSE)
       ELSE CASE command = "/help" -> Outcome(FALSE, "shown", id, t, FALSE)
              [] command \in {"/exit", "/quit"} -> Outcome(TRUE, "exit", id, t, FALSE)
              [] command = "/switch" ->
                    IF Len(parts) = 1
                    THEN Outcome(FALSE, "no session chosen", id, t, FALSE)
                    ELSE Outcome(FALSE, "switch usage", id, t, FALSE)
              [] command = "/session" ->
                    IF Len(parts) < 2
                    THEN Outcome(FALSE, "session usage", id, t, FALSE)
                    ELSE handleSessionSubcommand(Tail(parts), id, t)
              [] command = "/pdf" -> Outcome(FALSE, "exported", id, t, FALSE)
              [] command = "/assistant" ->
                    IF Len(parts) < 2
                    THEN Outcome(FALSE, "assistant usage", id, t, FALSE)
                    ELSE handleAssistantSubcommand(Tail(parts), id, t)

\* a line that begins with a slash is read at the main prompt (chat.ts
\* lines 53-65 and 161-162): handleCommand runs, and when it returns true
\* the loop is left and cleanupAndSave runs before mainLoop returns
MainLoopCommand ==
    /\ mlpc = "input"
    /\ commands < MaxCommands
    /\ commands' = commands + 1
    /\ \E line \in CommandLines :
          LET done == handleCommand(line, assistantId, title) IN
          /\ userInput' = line
          /\ shouldExit' = (IF done.returns THEN "true" ELSE "false")
          /\ printed' = done.printed
          /\ assistantId' = done.assistantId
          /\ title' = done.title
          /\ switchedAt' = (IF done.rebuilt THEN Append(switchedAt, Len(history))
                            ELSE switchedAt)
          /\ IF done.returns
             THEN /\ mlpc' = "exited"
                  /\ lastTurn' = "exit"
                  /\ cleanups' = cleanups + 1
             ELSE UNCHANGED <<mlpc, lastTurn, cleanups>>
    /\ UNCHANGED <<sessionVars, callVars, logVars, currentInput, clarificationRounds, sends>>
    /\ UNCHANGED <<histLen, sendsAtInput, isFirstMessage, generated, saved, sideVars>>

\* an empty line is read at the main prompt (chat.ts lines 55-57)
MainLoopEmptyInput ==
    /\ mlpc = "input"
    /\ userInput' = ""
    /\ UNCHANGED <<sessionVars, callVars, logVars, mainVars>>
    /\ UNCHANGED <<histLen, sendsAtInput, switchedAt, isFirstMessage, title, generated,
                   saved, cleanups, cmdVars, sideVars>>

\* the prompt is interrupted (src/src/cli/prompt.ts lines 40-55, chat.ts
\* lines 140-162): getUserInput throws at the main prompt or at the prompt
\* for a clarification, the loop is left, and cleanupAndSave runs
MainLoopInterrupt ==
    /\ mlpc \in {"input", "clarify"}
    /\ mlpc' = "exited"
    /\ lastTurn' = "interrupted"
    /\ cleanups' = cleanups + 1
    /\ UNCHANGED <<sessionVars, callVars, logVars, currentInput, clarificationRounds, sends>>
    /\ UNCHANGED <<histLen, sendsAtInput, switchedAt, userInput, isFirstMessage, title,
                   generated, saved, cmdVars, sideVars>>

----------------------------------------------------------------------------
(* Helpers of the properties *)

Last(s) == s[Len(s)]

Names(calls) == [i \in 1..Len(calls) |-> calls[i].name]

HasClarification(calls) == \E i \in 1..Len(calls) : IsClarification(calls[i])

\* some request_clarification call of the batch carries a question
HasQuestion(calls) ==
    \E i \in 1..Len(calls) : IsClarification(calls[i]) /\ calls[i].question # ""

\* the executeTool calls made for the batch now being dispatched
ExecutedNow == SelectSeq(executed, LAMBDA e : e.send = sends /\ e.round = round)

\* the backend invocations of the running (or last) sendMessage
RequestsNow == SelectSeq(requests, LAMBDA r : r.send = sends)

ToolsActive == toolsEnabled /\ (variant = "ollama" => toolsSupported)

----------------------------------------------------------------------------
(* C1 *)

\* C1: in the Ollama session a batch that contains request_clarification
\* leads to no executeTool call and to no tool entry for another call, and
\* sendMessage returns the clarification request.
C1_ClarificationBatchRunsNothing ==
    variant = "ollama" =>
        /\ (pc = "exec" /\ HasClarification(toolCalls)) =>
              /\ ExecutedNow = <<>>
              /\ \A i \in 1..Len(toolMessages) :
                    toolMessages[i].tool_name = CLARIFICATION_TOOL_NAME
        /\ (pc = "returned" /\ backend.kind = "message" /\ HasClarification(backend.calls)
                /\ toolsEnabled /\ toolsSupported) =>
              /\ response.kind = "clarification"
              /\ ExecutedNow = <<>>

----------------------------------------------------------------------------
(* C2 *)

\* C2: once the Ollama session has received the unsupported-tools error,
\* every request it sends from then on carries no tool declarations and
\* toolsSupported stays false.
C2_DowngradeIsPermanent ==
    [][unsupportedSeen' =>
          /\ ~toolsSupported'
          /\ \A i \in (Len(requests) + 1)..Len(requests') : ~requests'[i].tools]_vars

\* a request of a later turn of a tools-enabled session, after the downgrade
C2_Witness ==
    /\ variant = "ollama"
    /\ toolsEnabled
    /\ unsupportedSeen
    /\ \E i, j \in 1..Len(requests) :
          /\ i < j
          /\ requests[i].retry
          /\ requests[j].send > requests[i].send

----------------------------------------------------------------------------
(* C3 *)

\* C3: an unsupported-tools answer is followed, in the same sendMessage, by
\* exactly one retry of the same transcript without tools; a retry that is
\* answered ends the turn with the model's text appended to the history,
\* whatever tool calls the answer carries; a retry that fails ends the turn
\* with no further request.
C3_RetryOnce ==
    /\ [][(variant = "ollama" /\ pc = "request" /\ backend'.kind = "unsupported") =>
             /\ pc' = "retry"
             /\ requests' = Append(requests,
                    [send |-> sends, round |-> round, tools |-> FALSE, retry |-> TRUE,
                     payload |-> Last(requests).payload])
             /\ ~Last(requests).retry
             /\ Last(requests).send = sends
             /\ history' = history]_vars
    /\ [][(variant = "ollama" /\ pc = "retry" /\ backend'.kind = "message") =>
             /\ pc' = "returned"
             /\ response'.kind = "text"
             /\ response'.text \in ModelTexts
             /\ history' = Append(history, Message("model", response'.text))
             /\ requests' = requests]_vars
    /\ [][(variant = "ollama" /\ pc = "retry" /\ backend'.kind # "message") =>
             /\ pc' = "returned"
             /\ requests' = requests]_vars
    /\ [](variant = "ollama" =>
             \A i \in 1..Len(requests) :
                requests[i].retry => (i > 1 /\ ~requests[i - 1].retry))

\* the retry of a tools-enabled session was answered with a message that
\* carries tool calls, and the turn ended with the model's text
C3_Witness ==
    /\ variant = "ollama"
    /\ toolsEnabled
    /\ pc = "returned"
    /\ Last(requests).retry
    /\ backend.kind = "message"
    /\ Len(backend.calls) > 0
    /\ Last(history) = Message("model", "ans")

----------------------------------------------------------------------------
(* C4 *)

Alternating(hist) ==
    \A i \in 1..Len(hist) : hist[i].role = (IF i % 2 = 1 THEN "user" ELSE "model")

\* C4: in the Ollama and Llama sessions the history is even and alternating
\* after every turn that ended with an answer, and between calls it is odd
\* only after a clarification request, with a user message last.
C4_HistoryEvenAfterTurn ==
    variant \in {"ollama", "llama"} =>
        /\ (mlpc = "input" /\ lastTurn = "answer") =>
              (Len(history) % 2 = 0 /\ Alternating(history))
        /\ (pc \in {"idle", "returned"} /\ Len(history) % 2 = 1) =>
              (response.kind = "clarification" /\ Last(history).role = "user")

----------------------------------------------------------------------------
(* C5 *)

\* the running sendMessage has seen a clarification request
ClarificationDetected ==
    \/ variant = "ollama" /\ pc = "exec" /\ HasQuestion(toolCalls)
    \/ variant = "llama" /\ pc = "prompt" /\ pendingClarification # ""
    \/ pc = "returned" /\ response.kind = "clarification"

----------------------------------------------------------------------------
(* C6 *)

\* the first request_clarification call of the batch carries a question
FirstClarificationHasQuestion(calls) ==
    /\ FindClarification(calls) # 0
    /\ calls[FindClarification(calls)].question # ""

\* the Gemini wrapper has returned a clarification request for the batch it
\* received last, has executed none of its calls and has sent no function
\* response for it
GeminiShortCircuited ==
    /\ pc \in {"returned", "idle"}
    /\ response.kind = "clarification"
    /\ ExecutedNow = <<>>
    /\ \A i \in 1..Len(requests) :
          ~(requests[i].send = sends /\ requests[i].round = round)

----------------------------------------------------------------------------
(* C7 *)

\* a message of the backend arrives at a session whose tools are active
ToolResponseStep ==
    /\ variant \in {"ollama", "gemini"}
    /\ ToolsActive
    /\ pc = "request"
    /\ backend'.kind = "message"

\* the batch under dispatch ends without a clarification request
BatchEndStep ==
    /\ variant \in {"ollama", "gemini"}
    /\ pc = "exec"
    /\ pc' # "exec"
    /\ response'.kind # "clarification"

\* the step sends the next request, with the results of the batch
Reinvoked ==
    /\ pc' = "request"
    /\ Len(requests') = Len(requests) + 1
    /\ SubSeq(requests', 1, Len(requests)) = requests
    /\ Last(requests').send = sends
    /\ IF variant = "ollama"
       THEN /\ Last(requests').payload = ollamaMessages'
            /\ Len(ollamaMessages') >= Len(ollamaMessages)
            /\ SubSeq(ollamaMessages', 1, Len(ollamaMessages)) = ollamaMessages
            /\ \A i \in (Len(ollamaMessages) + 1)..Len(ollamaMessages') :
                  ollamaMessages'[i].role = "tool"
            /\ Len(ollamaMessages') - Len(ollamaMessages) >= Len(toolMessages)
       ELSE /\ Len(Last(requests').payload) = Len(toolCalls)
            /\ \A i \in 1..Len(toolCalls) :
                  Last(requests').payload[i].name = toolCalls[i].name

LeadsToClarification(calls) ==
    IF variant = "ollama" THEN HasQuestion(calls) ELSE FirstClarificationHasQuestion(calls)

----------------------------------------------------------------------------
(* C8 *)

\* a call for which executeToolCalls pushes a tool message
Produces(call) == IsOther(call) \/ call.question # ""

ResultName(m) == IF variant = "ollama" THEN m.tool_name ELSE m.name

ResultNames(ms) == [i \in 1..Len(ms) |-> ResultName(ms[i])]

\* position of the last assistant message that carries tool calls
LastBatchAt(msgs) ==
    CHOOSE k \in 1..Len(msgs) :
        /\ Len(msgs[k].tool_calls) > 0
        /\ \A j \in (k + 1)..Len(msgs) : Len(msgs[j].tool_calls) = 0

\* C8: the calls of a batch run one per step in array order, their results
\* are collected in that order, and the request that follows the batch
\* carries them in that order.
C8_SequentialInOrder ==
    /\ []((variant \in {"ollama", "gemini"} /\ pc = "exec") =>
             LET done == SubSeq(toolCalls, 1, callIdx - 1) IN
             /\ Names(ExecutedNow) = Names(SelectSeq(done, IsOther))
             /\ \A i \in 1..Len(ExecutedNow) :
                   toolCalls[ExecutedNow[i].idx].name = ExecutedNow[i].name
             /\ \A i, j \in 1..Len(ExecutedNow) :
                   i < j => ExecutedNow[i].idx < ExecutedNow[j].idx
             /\ ResultNames(toolMessages) = Names(SelectSeq(done, Produces)))
    /\ []((variant = "ollama" /\ pc = "request" /\ round >= 1) =>
             LET p == Last(requests).payload
                 k == LastBatchAt(p)
             IN /\ ResultNames(SubSeq(p, k + 1, Len(p)))
                       = Names(SelectSeq(p[k].tool_calls, Produces))
                /\ Names(ExecutedNow) = Names(SelectSeq(p[k].tool_calls, IsOther)))
    /\ []((variant = "gemini" /\ pc = "request" /\ round >= 1) =>
             /\ ResultNames(Last(requests).payload) = Names(OtherCalls(backend.calls))
             /\ Names(ExecutedNow) = Names(OtherCalls(backend.calls)))
    /\ [][/\ Len(executed') <= Len(executed) + 1
          /\ SubSeq(executed', 1, Len(executed)) = executed]_vars

\* a request that follows a batch of two different executed calls
C8_Witness ==
    /\ variant \in {"ollama", "gemini"}
    /\ pc = "request"
    /\ round = 1
    /\ Len(ExecutedNow) = 2
    /\ ExecutedNow[1].name # ExecutedNow[2].name

----------------------------------------------------------------------------
(* C9 *)

ResultValue(m) == IF variant = "ollama" THEN m.content ELSE m.response

\* where the result of the call executed by the step is found
ResultsAfter ==
    IF pc' \in {"exec", "prompt"} THEN toolMessages'
    ELSE IF variant = "ollama" THEN ollamaMessages'
    ELSE Last(requests').payload

\* an executeTool call of this step has thrown
ThrowStep ==
    /\ Len(executed') = Len(executed) + 1
    /\ ResultValue(Last(ResultsAfter)) = "error"

----------------------------------------------------------------------------
(* C10 *)

\* the backend call of the running sendMessage fails hard
HardFailureStep ==
    /\ variant \in {"ollama", "llama"}
    /\ \/ pc \in {"request", "prompt"} /\ backend'.kind = "error"
       \/ pc = "retry" /\ backend'.kind # "message"

\* C10: on a hard failure of the backend the Ollama and Llama sessions do
\* not throw; they return the fallback text and append one model message
\* with it; mainLoop ends the turn, and the next sendMessage is taken as
\* any other.
C10_FallbackCompletesTurn ==
    /\ [][HardFailureStep =>
             /\ pc' = "returned"
             /\ response' = TextResponse(ErrorText)
             /\ history' = Append(history, Message("model", ErrorText))]_vars
    /\ [](variant \in {"ollama", "llama"} => pc # "thrown")
    /\ [][(variant \in {"ollama", "llama"} /\ mlpc = "await" /\ pc = "returned"
              /\ response = TextResponse(ErrorText)) =>
             (mlpc' = "input" /\ pc' = "idle" /\ lastTurn' = "answer")]_vars
    /\ [][(variant \in {"ollama", "llama"} /\ sends' = sends + 1 /\ history # <<>>
              /\ Last(history) = Message("model", ErrorText)) =>
             /\ history' = Append(history, Message("user", currentInput))
             /\ pc' \in {"request", "prompt"}
             /\ Len(requests') = Len(requests) + 1]_vars

\* a turn answered by the model after a turn that ended with the fallback
C10_Witness ==
    /\ variant \in {"ollama", "llama"}
    /\ Len(history) = 4
    /\ history[2] = Message("model", ErrorText)
    /\ history[4] = Message("model", "ans")
    /\ mlpc = "input"

----------------------------------------------------------------------------
(* C11 *)

\* the messages the running (or last) sendMessage has appended to the history
AppendedNow == SubSeq(history, histLen + 1, Len(history))

\* C11: in the Ollama and Llama sessions a sendMessage call appends the
\* user's text to the history exactly once, as its first step, and at most
\* one model message after it, whatever the tool rounds, retries and errors
\* of the call; the history is never rewritten.
C11_UserOncePerCall ==
    /\ []((variant \in {"ollama", "llama"} /\ sends > 0) =>
             /\ Len(AppendedNow) \in {1, 2}
             /\ AppendedNow[1].role = "user"
             /\ mlpc = "await" => AppendedNow[1] = Message("user", currentInput)
             /\ Len(AppendedNow) = 2 =>
                   (AppendedNow[2].role = "model" /\ pc \in {"returned", "idle"}))
    /\ [][(variant = "ollama" \/ variant = "llama") =>
             /\ Len(history') >= Len(history)
             /\ SubSeq(history', 1, Len(history)) = history
             /\ sends' = sends + 1 =>
                   history' = Append(history, Message("user", currentInput))
             /\ sends' = sends =>
                   (history' = history
                       \/ (Len(history') = Len(history) + 1
                              /\ Last(history').role = "model"))]_vars

\* a call that went through a tool round and a second request, and one
\* that went through the retry, each with one user and one model message
C11_Witness ==
    /\ variant = "ollama"
    /\ pc = "returned"
    /\ Len(AppendedNow) = 2
    /\ \/ round = 1 /\ Len(RequestsNow) = 2 /\ Len(ExecutedNow) = 2
       \/ Last(requests).retry /\ backend.kind = "error"

----------------------------------------------------------------------------
(* C12 *)

\* C12: in no variant is mcpClient.executeTool called with the name
\* request_clarification.
C12_ClarificationNeverDispatched ==
    \A i \in 1..Len(executed) : executed[i].name # CLARIFICATION_TOOL_NAME

\* during one prompt of the Llama session the clarification handler and the
\* handler of another tool have both run
C12_Witness ==
    /\ variant = "llama"
    /\ pc = "prompt"
    /\ pendingClarification # ""
    /\ ExecutedNow # <<>>

----------------------------------------------------------------------------
(* C13 *)

\* C13: in the Llama session a question recorded by the clarification
\* handler is returned by the sendMessage whose prompt recorded it, the side
\* slot is empty whenever sendMessage has returned, and a sendMessage never
\* returns a question its own prompt did not record.
C13_ClarificationSurfacedOnce ==
    /\ []((variant = "llama" /\ pc \in {"returned", "idle"}) =>
             pendingClarification = "")
    /\ [][(variant = "llama" /\ pc = "prompt" /\ pc' = "returned"
              /\ pendingClarification # "") =>
             response' = ClarificationResponse(pendingClarification)]_vars
    /\ [][(variant = "llama" /\ sends' = sends + 1) => pendingClarification' = ""]_vars
    /\ [][(variant = "llama" /\ response'.kind = "clarification" /\ response' # response) =>
             (pc = "prompt" /\ response'.question = pendingClarification)]_vars

----------------------------------------------------------------------------
(* C14 *)

\* the conversation the backend is given with request r, system message
\* aside, as <<role, text>> pairs: the transcript of the request body
\* (Ollama), or the history the SDK or native session was created with
\* followed by the text of the call (Gemini, Llama)
Presented(r) ==
    IF variant = "ollama"
    THEN LET body == SelectSeq(r.payload, LAMBDA m : m.role # "system") IN
         [i \in 1..Len(body) |->
             <<IF body[i].role = "assistant" THEN "model" ELSE body[i].role,
               body[i].content>>]
    ELSE [i \in 1..Len(nativeHistory) |->
             <<nativeHistory[i].role, nativeHistory[i].parts[1]>>]
         \o <<<<"user", r.payload[1]>>>>

\* C14: the first request of a session constructed with a prior history
\* presents every prior message, in order and once, before the new text.
C14_SeedIsPriorHistory ==
    (sends = 1 /\ mlpc = "await") =>
        LET prior == SubSeq(history, 1, histLen)
            ctx == Presented(requests[1])
        IN /\ Len(ctx) >= Len(prior)
           /\ SubSeq(ctx, 1, Len(prior))
                 = [i \in 1..Len(prior) |-> <<prior[i].role, prior[i].text>>]
           /\ \A i \in (Len(prior) + 1)..Len(ctx) : ctx[i] = <<"user", currentInput>>

----------------------------------------------------------------------------
(* C15 *)

\* the sendMessage calls mainLoop has made for the line it read last
InputSends == sends - sendsAtInput

\* C15: for one user input mainLoop calls sendMessage at most
\* MAX_CLARIFICATION_ROUNDS + 1 times and asks the user at most
\* MAX_CLARIFICATION_ROUNDS questions, and the clarification loop it enters
\* with a send is always left, even when every call asks for clarification.
C15_ClarificationRoundsBounded ==
    /\ [](InputSends <= MAX_CLARIFICATION_ROUNDS + 1)
    /\ [](mlpc = "send" => InputSends = clarificationRounds)
    /\ [](mlpc = "await" => InputSends = clarificationRounds + 1)
    /\ [](mlpc = "clarify" => clarificationRounds <= MAX_CLARIFICATION_ROUNDS)
    /\ [][(mlpc = "await" /\ mlpc' = "clarify") =>
             clarificationRounds' = clarificationRounds + 1]_vars
    /\ (mlpc = "send") ~> (mlpc \in {"input", "exited"})

\* the sixth call for one input has asked for clarification again and the
\* loop was left for the main prompt
C15_Witness ==
    /\ variant = "any"
    /\ InputSends = MAX_CLARIFICATION_ROUNDS + 1
    /\ response.kind = "clarification"
    /\ lastTurn = "exhausted"
    /\ mlpc = "input"

----------------------------------------------------------------------------
(* MCPClient (src/src/mcp/client.ts).  Its operations are called one at a  *)
(* time: every caller awaits the operation it has started.                 *)

\* the names executeTool is called with
ToolNames == {"list_threads", "delete_thread", "get_thread_data", "other_tool"}

\* connect() without the test of lines 76-78
connect_NoTest(op) ==
    /\ client' = created + 1
    /\ transport' = created + 1
    /\ created' = created + 1
    /\ mcpPc' = "connecting"
    /\ mcpOp' = op
    /\ UNCHANGED <<connected, live, used>>

\* connect() up to its await (lines 75-90), called for operation op
connect(op) ==
    IF connected
    THEN /\ mcpPc' = "idle"
         /\ mcpOp' = "none"
         /\ UNCHANGED <<connected, client, transport, created, live, used>>
    ELSE /\ client' = created + 1
         /\ transport' = created + 1
         /\ created' = created + 1
         /\ mcpPc' = "connecting"
         /\ mcpOp' = op
         /\ UNCHANGED <<connected, live, used>>

\* connect() is called
McpConnect ==
    /\ variant = "none"
    /\ mcpPc = "idle"
    /\ ops < MaxOps
    /\ ops' = ops + 1
    /\ connect("connect")
    /\ UNCHANGED <<lastTool, tasks, chatVars, serverVars, adapterVars>>

\* client.connect(transport) resolves (lines 90-91)
McpConnectOk ==
    /\ mcpPc = "connecting"
    /\ connected' = TRUE
    /\ live' = live \cup {client}
    /\ IF mcpOp = "tool"
       THEN /\ used' = client
            /\ mcpPc' = "calling"
            /\ UNCHANGED mcpOp
       ELSE /\ mcpPc' = "idle"
            /\ mcpOp' = "none"
            /\ UNCHANGED used
    /\ UNCHANGED <<client, transport, created, ops, lastTool, tasks, chatVars, serverVars, adapterVars>>

\* client.connect(transport) rejects: the operation throws
McpConnectFail ==
    /\ mcpPc = "connecting"
    /\ mcpPc' = "idle"
    /\ mcpOp' = "none"
    /\ UNCHANGED <<connected, client, transport, created, live, used, ops, lastTool, tasks, chatVars, serverVars, adapterVars>>

\* disconnect() up to its await (lines 97-99)
McpDisconnect ==
    /\ variant = "none"
    /\ mcpPc = "idle"
    /\ ops < MaxOps
    /\ ops' = ops + 1
    /\ IF client # 0 /\ connected
       THEN /\ mcpPc' = "closing"
            /\ mcpOp' = "disconnect"
       ELSE UNCHANGED <<mcpPc, mcpOp>>
    /\ UNCHANGED <<connected, client, transport, created, live, used, lastTool, tasks, chatVars, serverVars, adapterVars>>

\* client.close() resolves (lines 100-102)
McpCloseOk ==
    /\ mcpPc = "closing"
    /\ live' = live \ {client}
    /\ connected' = FALSE
    /\ client' = 0
    /\ transport' = 0
    /\ mcpPc' = "idle"
    /\ mcpOp' = "none"
    /\ UNCHANGED <<created, used, ops, lastTool, tasks, chatVars, serverVars, adapterVars>>

\* client.close() rejects: disconnect throws before it has reset anything
McpCloseFail ==
    /\ mcpPc = "closing"
    /\ mcpPc' = "idle"
    /\ mcpOp' = "none"
    /\ UNCHANGED <<connected, client, transport, created, live, used, ops, lastTool, tasks, chatVars, serverVars, adapterVars>>

\* executeTool(name, args) up to its first await: the switch of lines
\* 166-173, then ensureConnected (lines 109-114) and client.callTool
McpExecuteTool ==
    /\ variant = "none"
    /\ mcpPc = "idle"
    /\ ops < MaxOps
    /\ ops' = ops + 1
    /\ UNCHANGED tasks
    /\ \E name \in ToolNames :
          IF name \notin {"list_threads", "delete_thread"}
          THEN /\ lastTool' = [name |-> name, branch |-> "default"]
               /\ UNCHANGED <<connected, client, transport, created, live, mcpPc, mcpOp, used>>
          ELSE /\ lastTool' = [name |-> name, branch |-> "case"]
               /\ IF ~connected \/ client = 0
                  THEN connect("tool")
                  ELSE /\ used' = client
                       /\ mcpPc' = "calling"
                       /\ mcpOp' = "tool"
                       /\ UNCHANGED <<connected, client, transport, created, live>>
    /\ UNCHANGED <<chatVars, serverVars, adapterVars>>

\* client.callTool resolves or rejects
McpCallReturn ==
    /\ mcpPc = "calling"
    /\ mcpPc' = "idle"
    /\ mcpOp' = "none"
    /\ used' = 0
    /\ UNCHANGED <<connected, client, transport, created, live, ops, lastTool, tasks, chatVars, serverVars, adapterVars>>

\* an executeTool call that has not begun
NoTask == [pc |-> "idle", name |-> "", obj |-> 0, used |-> 0]

\* executeTool(name, args) of one of several callers, up to its first
\* await: ensureConnected (lines 109-114) and, when it calls connect, the
\* new Client and transport of lines 80-88; obj is the Client whose
\* connect(transport) this caller awaits
TaskExecuteTool(t) ==
    /\ variant = "none"
    /\ tasks[t].pc = "idle"
    /\ \E name \in {"list_threads", "delete_thread"} :
          IF (~connected \/ client = 0) /\ ~connected
          THEN /\ client' = created + 1
               /\ transport' = created + 1
               /\ created' = created + 1
               /\ tasks' = [tasks EXCEPT ![t] = [pc |-> "connecting", name |-> name,
                                                 obj |-> created + 1, used |-> 0]]
          ELSE /\ tasks' = [tasks EXCEPT ![t] = [pc |-> "calling", name |-> name,
                                                 obj |-> 0, used |-> client]]
               /\ UNCHANGED <<client, transport, created>>
    /\ UNCHANGED <<connected, live, mcpPc, mcpOp, used, ops, lastTool, chatVars, serverVars,
                   adapterVars>>

\* the connect(transport) a caller awaits resolves (lines 90-91):
\* ensureConnected returns this.client as it is now, and callTool is called on it
TaskConnectOk(t) ==
    /\ tasks[t].pc = "connecting"
    /\ connected' = TRUE
    /\ live' = live \cup {tasks[t].obj}
    /\ tasks' = [tasks EXCEPT ![t].pc = "calling", ![t].used = client]
    /\ UNCHANGED <<client, transport, created, mcpPc, mcpOp, used, ops, lastTool, chatVars,
                   serverVars, adapterVars>>

\* the connect(transport) a caller awaits rejects: its executeTool throws
TaskConnectFail(t) ==
    /\ tasks[t].pc = "connecting"
    /\ tasks' = [tasks EXCEPT ![t].pc = "thrown"]
    /\ UNCHANGED <<connected, client, transport, created, live, mcpPc, mcpOp, used, ops,
                   lastTool, chatVars, serverVars, adapterVars>>

\* the callTool of a caller resolves or rejects
TaskCallReturn(t) ==
    /\ tasks[t].pc = "calling"
    /\ tasks' = [tasks EXCEPT ![t].pc = "done"]
    /\ UNCHANGED <<connected, client, transport, created, live, mcpPc, mcpOp, used, ops,
                   lastTool, chatVars, serverVars, adapterVars>>

\* the state of the singleton after module load (lines 67-70, 178)
McpInit ==
    /\ connected = FALSE
    /\ client = 0
    /\ transport = 0
    /\ created = 0
    /\ live = {}
    /\ mcpPc = "idle"
    /\ mcpOp = "none"
    /\ used = 0
    /\ ops = 0
    /\ lastTool = [name |-> "", branch |-> "none"]
    /\ tasks = [t \in 1..NumTasks |-> NoTask]

----------------------------------------------------------------------------
(* C16 *)

\* C16: no connection exists before the first operation that needs one; a
\* Client is created only by an operation that finds the client not
\* connected; connect and executeTool on a connected client create nothing
\* and the call uses the client held; a connection is only taken down by
\* disconnect; at most one connection is live, and it is the client held.
C16_OneLazySharedConnection ==
    /\ [](Cardinality(live) <= 1)
    /\ [](live \subseteq {client})
    /\ [](ops = 0 => (created = 0 /\ live = {}))
    /\ [][created' # created =>
             (~connected /\ mcpPc = "idle" /\ ops' = ops + 1 /\ created' = created + 1)]_vars
    /\ [][(connected /\ mcpPc = "idle") =>
             /\ created' = created
             /\ client' = client
             /\ live' = live
             /\ mcpPc' = "calling" => used' = client]_vars
    /\ [][live' # live =>
             \/ mcpPc = "closing" /\ mcpOp = "disconnect"
             \/ mcpPc = "connecting" /\ live = {} /\ live' = {client}]_vars
    /\ [][mcpPc = "calling" => (live' = live /\ client' = client /\ created' = created)]_vars

\* a tool execution on the second connection of the process reuses it:
\* connect, disconnect, a tool execution that connects, then this one
C16_Witness ==
    /\ mcpPc = "calling"
    /\ created = 2
    /\ used = 2
    /\ live = {2}
    /\ ops = 4

----------------------------------------------------------------------------
(* The tools delete_thread and get_thread_data of the MCP server           *)
(* (src/src/mcp/server.ts, src/unnamed/part_005).  A filename is the       *)
(* sequence of its characters.                                             *)

StemChars == {"a", " ", ".", "/", "\\"}

DotJson == <<".", "j", "s", "o", "n">>

Extensions == {<<>>, DotJson, <<".", "t", "x", "t">>}

\* the filename arguments of the calls
Filenames == {stem \o ext : stem \in SeqsUpTo(StemChars, MaxStem), ext \in Extensions}

\* paths at which a file may exist: in LOG_DIR, outside it, and not a log
ExistingPaths == {<<"a">> \o DotJson, <<"/", "a">> \o DotJson, <<"a", ".", "t", "x", "t">>}

\* filename.trim() === '' (an empty string is falsy as well)
trimIsEmpty(filename) == \A i \in 1..Len(filename) : filename[i] = " "

\* filename.endsWith(suffix)
endsWith(filename, suffix) ==
    /\ Len(filename) >= Len(suffix)
    /\ SubSeq(filename, Len(filename) - Len(suffix) + 1, Len(filename)) = suffix

\* filename.includes(part)
includes(filename, part) ==
    \E i \in 1..(Len(filename) - Len(part) + 1) :
        SubSeq(filename, i, i + Len(part) - 1) = part

\* validateFilename without the path traversal test
validateFilename_NoTraversalTest(filename) ==
    IF trimIsEmpty(filename) THEN "empty"
    ELSE IF ~endsWith(filename, DotJson) THEN "not_json"
    ELSE "valid"

\* validateFilename (part_005 lines 33-64; inlined in server.ts lines
\* 92-126 and 211-245): the error it reports, or "valid"
validateFilename(filename) ==
    IF trimIsEmpty(filename) THEN "empty"
    ELSE IF ~endsWith(filename, DotJson) THEN "not_json"
    ELSE IF includes(filename, <<".", ".">>) \/ includes(filename, <<"/">>)
            \/ includes(filename, <<"\\">>) THEN "traversal"
    ELSE "valid"

FsCall(op, path, result) == [op |-> op, path |-> path, result |-> result]

Output(success, message) == [raised |-> FALSE, success |-> success, message |-> message]

NoOutput == [raised |-> FALSE, success |-> FALSE, message |-> "none"]

NoRequest == [tool |-> "none", filename |-> <<>>]

\* the handler of delete_thread (server.ts lines 91-167)
DeleteThread ==
    /\ variant = "none"
    /\ \E filename \in Filenames :
          LET validation == validateFilename(filename) IN
          /\ serverReq' = [tool |-> "delete_thread", filename |-> filename]
          /\ IF validation # "valid"
             THEN /\ output' = Output(FALSE, validation)
                  /\ fsLog' = <<>>
                  /\ UNCHANGED files
             ELSE IF filename \notin files
             THEN /\ output' = Output(FALSE, "not_found")
                  /\ fsLog' = <<FsCall("existsSync", filename, "false")>>
                  /\ UNCHANGED files
             ELSE \/ /\ files' = files \ {filename}
                     /\ output' = Output(TRUE, "deleted")
                     /\ fsLog' = <<FsCall("existsSync", filename, "true"),
                                   FsCall("unlinkSync", filename, "done")>>
                  \/ /\ output' = Output(FALSE, "failed")
                     /\ fsLog' = <<FsCall("existsSync", filename, "true"),
                                   FsCall("unlinkSync", filename, "threw")>>
                     /\ UNCHANGED files
    /\ UNCHANGED <<chatVars, mcpVars, adapterVars>>

\* the handler of get_thread_data (server.ts lines 210-298); reading the
\* file or parsing it may throw
GetThreadData ==
    /\ variant = "none"
    /\ \E filename \in Filenames :
          LET validation == validateFilename(filename) IN
          /\ serverReq' = [tool |-> "get_thread_data", filename |-> filename]
          /\ IF validation # "valid"
             THEN /\ output' = Output(FALSE, validation)
                  /\ fsLog' = <<>>
             ELSE IF filename \notin files
             THEN /\ output' = Output(FALSE, "not_found")
                  /\ fsLog' = <<FsCall("existsSync", filename, "false")>>
             ELSE \/ /\ output' = Output(TRUE, "data")
                     /\ fsLog' = <<FsCall("existsSync", filename, "true"),
                                   FsCall("readFileSync", filename, "done")>>
                  \/ /\ output' = Output(FALSE, "failed")
                     /\ fsLog' = <<FsCall("existsSync", filename, "true"),
                                   FsCall("readFileSync", filename, "threw")>>
    /\ UNCHANGED <<files, chatVars, mcpVars, adapterVars>>

\* the directory before the first call
ServerInit(fileSets) ==
    /\ files \in fileSets
    /\ serverReq = NoRequest
    /\ fsLog = <<>>
    /\ output = NoOutput

----------------------------------------------------------------------------
(* C17 *)

\* the filenames the tools must refuse
Refused(filename) ==
    \/ filename = <<>>
    \/ \A i \in 1..Len(filename) : filename[i] = " "
    \/ Len(filename) < 5
    \/ \E k \in 1..5 : filename[Len(filename) - 5 + k] # DotJson[k]
    \/ \E i \in 1..Len(filename) : filename[i] \in {"/", "\\"}
    \/ \E i \in 1..(Len(filename) - 1) : filename[i] = "." /\ filename[i + 1] = "."

\* the call has deleted or read a file, or has tried to
Touched == \E i \in 1..Len(fsLog) : fsLog[i].op \in {"unlinkSync", "readFileSync"}

----------------------------------------------------------------------------
(* The schema adapters (src/src/tools/definitions.ts).  An object is the   *)
(* sequence of its entries in key order; a key that may be missing is a    *)
(* record that says whether it is present.                                 *)

Absent == [present |-> FALSE, value |-> <<>>]

Present(v) == [present |-> TRUE, value |-> v]

\* the members of the enum SchemaType that the switch of
\* geminiTypeToGbnfType names (lines 112-123), in the order of its cases
SchemaTypes == <<"STRING", "NUMBER", "INTEGER", "BOOLEAN", "OBJECT", "ARRAY">>

\* what a type field can hold besides: a value the switch has no case for,
\* and nothing ("" = undefined)
OtherTypes == {"NULL", ""}

\* geminiTypeToGbnfType (lines 108-127)
geminiTypeToGbnfType_AlwaysString(schemaType) == "string"

geminiTypeToGbnfType(schemaType) ==
    CASE schemaType = "STRING" -> "string"
      [] schemaType = "NUMBER" -> "number"
      [] schemaType = "INTEGER" -> "integer"
      [] schemaType = "BOOLEAN" -> "boolean"
      [] schemaType = "OBJECT" -> "object"
      [] schemaType = "ARRAY" -> "array"
      [] OTHER -> "string"

\* one entry of parameters.properties
Property(name, type, description) ==
    [name |-> name, type |-> type, description |-> description]

\* decl.parameters is undefined
NoParameters ==
    [defined |-> FALSE, type |-> "", properties |-> <<>>, required |-> Absent]

Parameters(properties, required) ==
    [defined |-> TRUE, type |-> "OBJECT", properties |-> properties, required |-> required]

\* the parameters of a declaration: none; those of listThreadsTool (lines
\* 20-24); those of deleteThreadTool (lines 34-44) with each value a type
\* field can hold; properties without descriptions and without a required
\* list; two properties of which one is required
ParameterValues ==
    {NoParameters, Parameters(<<>>, Present(<<>>))}
    \cup {Parameters(<<Property("filename", t, Present("the file"))>>,
                     Present(<<"filename">>)) :
             t \in {SchemaTypes[j] : j \in 1..Len(SchemaTypes)} \cup OtherTypes}
    \cup {Parameters(<<Property("filename", "STRING", Absent)>>, Absent),
          Parameters(<<Property("filename", "STRING", Present("the file")),
                       Property("question", "INTEGER", Present("the question"))>>,
                     Present(<<"question">>))}

DeclarationNames == {"list_threads", "delete_thread", "request_clarification"}

FunctionDeclaration(name, description, parameters) ==
    [name |-> name, description |-> description, parameters |-> parameters]

\* the declarations: each name with a description and each of the
\* parameters, and each name without a description
FunctionDeclarations ==
    {FunctionDeclaration(n, Present("a tool"), p) :
        n \in DeclarationNames, p \in ParameterValues}
    \cup {FunctionDeclaration(n, Absent, Parameters(<<>>, Present(<<>>))) :
             n \in DeclarationNames}

\* catalogs of declarations with unique names
Catalogs ==
    {c \in SeqsUpTo(FunctionDeclarations, MaxCatalog) :
        \A i, j \in 1..Len(c) : i # j => c[i].name # c[j].name}

\* the names of a catalog, in catalog order
DeclaredNames(decls) == [i \in 1..Len(decls) |-> decls[i].name]

NotBuilt == [built |-> FALSE, again |-> FALSE, value |-> <<>>]

\* the output of a run of an adapter that left out before: again says that
\* the adapter had run before
Built(out, v) == [built |-> TRUE, again |-> out.built, value |-> v]

\* toolConfig (lines 101-103) for a catalog: the declarations as they are
toolConfig(decls) == [functionDeclarations |-> decls]

\* the loop over Object.entries(parameters.properties) (lines 143-149 and
\* 251-260)
convertProperties_KeepTypeOnly(properties) ==
    [j \in 1..Len(properties) |->
        Property(properties[j].name, geminiTypeToGbnfType(properties[j].type), Absent)]

convertProperties(properties) ==
    [j \in 1..Len(properties) |->
        Property(properties[j].name, geminiTypeToGbnfType(properties[j].type),
                 properties[j].description)]

\* convertParametersToGbnfSchema (lines 132-159)
convertParametersToGbnfSchema(parameters) ==
    IF ~parameters.defined
    THEN [defined |-> FALSE, type |-> "", properties |-> <<>>, required |-> Absent]
    ELSE [defined |-> TRUE,
          type |-> geminiTypeToGbnfType(parameters.type),
          properties |-> convertProperties(parameters.properties),
          required |-> IF parameters.required.present
                             /\ Len(parameters.required.value) > 0
                          THEN Present(parameters.required.value)
                          ELSE Absent]

\* an assignment that puts a new key in front of the keys of the object
Put_InFront(object, key, value) ==
    IF \E i \in 1..Len(object) : object[i].key = key
    THEN [i \in 1..Len(object) |->
             IF object[i].key = key THEN [key |-> key, value |-> value] ELSE object[i]]
    ELSE <<[key |-> key, value |-> value]>> \o object

\* object[key] = value (line 203): the value of an existing key is
\* replaced in place, a new key goes after the keys of the object
Put(object, key, value) ==
    IF \E i \in 1..Len(object) : object[i].key = key
    THEN [i \in 1..Len(object) |->
             IF object[i].key = key THEN [key |-> key, value |-> value] ELSE object[i]]
    ELSE Append(object, [key |-> key, value |-> value])

RECURSIVE convertToLlamaToolsFrom(_, _, _)
\* the for loop of convertToLlamaTools (lines 202-208) from position i on
convertToLlamaToolsFrom(decls, i, llamaToolsSoFar) ==
    IF i > Len(decls)
    THEN llamaToolsSoFar
    ELSE convertToLlamaToolsFrom(
             decls, i + 1,
             Put(llamaToolsSoFar, decls[i].name,
                 [description |-> decls[i].description,
                  params |-> convertParametersToGbnfSchema(decls[i].parameters),
                  handler |-> decls[i].name]))

\* convertToLlamaTools (lines 190-211)
convertToLlamaTools(decls) == convertToLlamaToolsFrom(decls, 1, <<>>)

\* convertToOllamaTools (lines 241-265)
convertToOllamaTools(decls) ==
    [i \in 1..Len(decls) |->
        [type |-> "function",
         function |->
            [name |-> decls[i].name,
             description |-> IF decls[i].description.present
                             THEN decls[i].description.value
                             ELSE "",
             parameters |->
                [type |-> "object",
                 required |->
                    Present(IF decls[i].parameters.defined
                                  /\ decls[i].parameters.required.present
                            THEN decls[i].parameters.required.value
                            ELSE <<>>),
                 properties |->
                    IF decls[i].parameters.defined
                    THEN convertProperties(decls[i].parameters.properties)
                    ELSE <<>>]]]]

\* a run of an adapter that empties the catalog it was given
ConvertToOllamaTools_EmptiesCatalog ==
    /\ variant = "none"
    /\ ollamaOut' = Built(ollamaOut, convertToOllamaTools(declarations))
    /\ declarations' = <<>>
    /\ UNCHANGED <<geminiOut, llamaOut, chatVars, mcpVars, serverVars>>

\* the Gemini tool configuration is built from the catalog
BuildToolConfig ==
    /\ variant = "none"
    /\ geminiOut' = Built(geminiOut, toolConfig(declarations))
    /\ UNCHANGED <<declarations, llamaOut, ollamaOut, chatVars, mcpVars, serverVars>>

\* convertToLlamaTools is applied to the catalog
ConvertToLlamaTools ==
    /\ variant = "none"
    /\ llamaOut' = Built(llamaOut, convertToLlamaTools(declarations))
    /\ UNCHANGED <<declarations, geminiOut, ollamaOut, chatVars, mcpVars, serverVars>>

\* convertToOllamaTools is applied to the catalog
ConvertToOllamaTools ==
    /\ variant = "none"
    /\ ollamaOut' = Built(ollamaOut, convertToOllamaTools(declarations))
    /\ UNCHANGED <<declarations, geminiOut, llamaOut, chatVars, mcpVars, serverVars>>

\* a catalog, before any adapter has run
AdapterInit(catalogs) ==
    /\ declarations \in catalogs
    /\ geminiOut = NotBuilt
    /\ llamaOut = NotBuilt
    /\ ollamaOut = NotBuilt

----------------------------------------------------------------------------
(* C18 *)

\* the tool names of the three outputs, in output order
GeminiNames ==
    [i \in 1..Len(geminiOut.value.functionDeclarations) |->
        geminiOut.value.functionDeclarations[i].name]

LlamaNames == [i \in 1..Len(llamaOut.value) |-> llamaOut.value[i].key]

OllamaNames == [i \in 1..Len(ollamaOut.value) |-> ollamaOut.value[i].function.name]

----------------------------------------------------------------------------
(* C19 *)

\* the declaration has parameters whose required list is empty
EmptyRequired(decl) ==
    /\ decl.parameters.defined
    /\ decl.parameters.required.present
    /\ decl.parameters.required.value = <<>>

\* C19: for a declaration whose required list is empty the output of the
\* Gemini tool configuration and the output of convertToLlamaTools have no
\* required key.
C19_NativeAdaptersOmitEmptyRequired ==
    \A i \in 1..Len(declarations) :
        EmptyRequired(declarations[i]) =>
            /\ geminiOut.built =>
                  ~geminiOut.value.functionDeclarations[i].parameters.required.present
            /\ llamaOut.built => ~llamaOut.value[i].value.params.required.present

----------------------------------------------------------------------------
(* C20 *)

\* the declaration has a required list with an entry
NonEmptyRequired(decl) ==
    /\ decl.parameters.defined
    /\ decl.parameters.required.present
    /\ decl.parameters.required.value # <<>>

\* C20: convertToOllamaTools emits the required key for a declaration only
\* when the required list of the declaration is non-empty; for a declaration
\* with no required parameters the emitted parameters have no required key.
C20_OllamaRequiredOnlyWhenNonEmpty ==
    ollamaOut.built =>
        \A i \in 1..Len(declarations) :
            ollamaOut.value[i].function.parameters.required.present =>
                NonEmptyRequired(declarations[i])

----------------------------------------------------------------------------
(* C21 *)

\* the kinds of the backends, each at the position of its SchemaType
NativeKinds == <<"string", "number", "integer", "boolean", "object", "array">>

\* the kind the mapping table gives for a type field
TableKind(type) ==
    IF \E j \in 1..Len(SchemaTypes) : SchemaTypes[j] = type
    THEN NativeKinds[CHOOSE j \in 1..Len(SchemaTypes) : SchemaTypes[j] = type]
    ELSE "string"

\* the properties of declaration i as convertToLlamaTools and
\* convertToOllamaTools emitted them
LlamaProperties(i) == llamaOut.value[i].value.params.properties

OllamaProperties(i) == ollamaOut.value[i].function.parameters.properties

----------------------------------------------------------------------------
(* C22 *)

\* the SchemaType a kind of a backend stands for
SchemaTypeOf(kind) ==
    SchemaTypes[CHOOSE j \in 1..Len(NativeKinds) : NativeKinds[j] = kind]

\* the required names of a schema; without the key every parameter is optional
RequiredSet(required) ==
    IF required.present
    THEN {required.value[k] : k \in 1..Len(required.value)}
    ELSE {}

\* the canonical form: name, description, the properties with their kinds
\* and descriptions, and the set of required names
CanonicalForm(name, description, properties, required) ==
    [name |-> name, description |-> description, properties |-> properties,
     required |-> RequiredSet(required)]

CanonicalOfDeclaration(decl) ==
    CanonicalForm(decl.name, decl.description.value, decl.parameters.properties,
                  decl.parameters.required)

\* the properties of an output read back: the kind of the backend becomes
\* the SchemaType it stands for
ReadProperties(properties) ==
    [j \in 1..Len(properties) |->
        Property(properties[j].name, SchemaTypeOf(properties[j].type),
                 properties[j].description)]

CanonicalOfGemini(fd) ==
    CanonicalForm(fd.name, fd.description.value, fd.parameters.properties,
                  fd.parameters.required)

CanonicalOfLlama(entry) ==
    CanonicalForm(entry.key, entry.value.description.value,
                  ReadProperties(entry.value.params.properties),
                  entry.value.params.required)

CanonicalOfOllama(tool) ==
    CanonicalForm(tool.function.name, tool.function.description,
                  ReadProperties(tool.function.parameters.properties),
                  tool.function.parameters.required)

\* a canonical declaration with a flat object schema: it has a description,
\* parameters of kind object, and properties of the six kinds
FlatDeclaration(decl) ==
    /\ decl.description.present
    /\ decl.parameters.defined
    /\ decl.parameters.type = "OBJECT"
    /\ \A j \in 1..Len(decl.parameters.properties) :
          decl.parameters.properties[j].type \notin OtherTypes

\* C22: for a declaration with a flat object schema the output of each
\* adapter reads back to the canonical form of the declaration: the same
\* name, description, properties with their kinds and descriptions, and the
\* same set of required names.
C22_OutputsReadBackToDeclaration ==
    \A i \in 1..Len(declarations) :
        FlatDeclaration(declarations[i]) =>
            LET canonical == CanonicalOfDeclaration(declarations[i]) IN
            /\ geminiOut.built =>
                  CanonicalOfGemini(geminiOut.value.functionDeclarations[i]) = canonical
            /\ llamaOut.built => CanonicalOfLlama(llamaOut.value[i]) = canonical
            /\ ollamaOut.built => CanonicalOfOllama(ollamaOut.value[i]) = canonical

\* the three adapters have run on a catalog that holds the parameterless
\* list_threads of the code and a declaration with a described property
C22_Witness ==
    /\ geminiOut.built
    /\ llamaOut.built
    /\ ollamaOut.built
    /\ \E i \in 1..Len(declarations) :
          /\ declarations[i] = FunctionDeclaration("list_threads", Present("a tool"),
                                                   Parameters(<<>>, Present(<<>>)))
          /\ ~llamaOut.value[i].value.params.required.present
          /\ ollamaOut.value[i].function.parameters.required = Present(<<>>)
    /\ \E i \in 1..Len(declarations) :
          /\ FlatDeclaration(declarations[i])
          /\ Len(declarations[i].parameters.properties) = 2

----------------------------------------------------------------------------
(* C23 *)

----------------------------------------------------------------------------
(* C24 *)

\* the texts of the messages of one role, in order
TextsOfRole(hist, role) ==
    LET ofRole == SelectSeq(hist, LAMBDA m : m.role = role)
    IN [i \in 1..Len(ofRole) |-> ofRole[i].text]

\* the contents of the entries of one role of a transcript, in order
ContentsOfRole(msgs, role) ==
    LET ofRole == SelectSeq(msgs, LAMBDA m : m.role = role)
    IN [i \in 1..Len(ofRole) |-> ofRole[i].content]

\* C24: every request of the Ollama session starts with the system
\* instruction and holds the user messages the history held when the request
\* left, each once and in order; the history has one user message per
\* sendMessage call.
C24_RequestHoldsEachUserMessageOnce ==
    variant = "ollama" =>
        \A i \in 1..Len(requests) :
            LET p == requests[i].payload IN
            /\ p[1] = OllamaMessage("system", systemInstruction, <<>>, "")
            /\ ContentsOfRole(p, "system") = <<systemInstruction>>
            /\ ContentsOfRole(p, "user")
                  = SubSeq(TextsOfRole(history, "user"), 1, requests[i].send)

----------------------------------------------------------------------------
(* C25 *)

\* C25: the request the Ollama session sends after a batch holds, after the
\* assistant message of the batch, one tool entry for every call of the
\* batch, in batch order.
C25_OneToolEntryPerCall ==
    (variant = "ollama" /\ pc = "request" /\ round >= 1) =>
        LET p == Last(requests).payload
            k == LastBatchAt(p)
            entries == SubSeq(p, k + 1, Len(p))
        IN /\ \A j \in 1..Len(entries) : entries[j].role = "tool"
           /\ ResultNames(entries) = Names(p[k].tool_calls)

----------------------------------------------------------------------------
(* C26 *)

\* the running sendMessage ended in its outer catch
EndedWithFallback ==
    /\ variant = "ollama"
    /\ pc = "returned"
    /\ backend.kind \in {"error", "unsupported"}
    /\ response = TextResponse(ErrorText)

\* C26: after a sendMessage of the Ollama session that ended with the
\* fallback message the transcript ends with that message, as the history
\* does, and no request holds two user messages in a row.
C26_TranscriptMirrorsFallback ==
    /\ EndedWithFallback =>
          /\ Last(history) = Message("model", ErrorText)
          /\ Last(ollamaMessages) = OllamaMessage("assistant", ErrorText, <<>>, "")
    /\ (variant = "ollama" /\ sends >= 2) =>
          LET p == Last(requests).payload IN
          \A j \in 1..(Len(p) - 1) : ~(p[j].role = "user" /\ p[j + 1].role = "user")

----------------------------------------------------------------------------
(* /assistant switch <ID> typed at the main prompt (chat.ts lines 59-65,   *)
(* commandHandler.ts lines 153-197).  ChatSession.switchAssistant builds a *)
(* new backend session from the system prompt of the new assistant and     *)
(* the history of the conversation, and drops the old one.                 *)

MainLoopAssistantSwitch ==
    /\ mlpc = "input"
    /\ variant \in Variants
    /\ Len(switchedAt) < MaxSwitches
    /\ \E systemPrompt \in SystemPrompts :
          /\ systemPrompt # systemInstruction
          /\ systemInstruction' = systemPrompt
    /\ nativeHistory' = createChatSession(variant, history)
    /\ toolsSupported' = TRUE
    /\ ollamaMessages' = <<>>
    /\ pendingClarification' = ""
    /\ pc' = "idle"
    /\ switchedAt' = Append(switchedAt, Len(history))
    /\ UNCHANGED <<variant, toolsEnabled, history, toolCalls, callIdx, toolMessages,
                   clarificationQuestion, round, batches, response, logVars, mainVars,
                   histLen, sendsAtInput, loopVars, cmdVars, sideVars>>

----------------------------------------------------------------------------
(* C27 *)

\* C27: in the Ollama and Llama sessions no /assistant switch is done
\* while the history has odd length.
C27_NoSwitchOnOddHistory ==
    variant \in {"ollama", "llama"} =>
        \A i \in 1..Len(switchedAt) : switchedAt[i] % 2 = 0

----------------------------------------------------------------------------
(* C28 *)

\* the requests a step has added
NewRequests == SubSeq(requests', Len(requests) + 1, Len(requests'))

\* C28: a session created with tools disabled sends no tool declarations,
\* executes no tool and returns no clarification request; the Ollama
\* session does none of these from its downgrade on; and a response with
\* tool calls that such a session receives is returned as the answer.
C28_NoToolUseWhenToolsAreOff ==
    /\ [](~toolsEnabled =>
             /\ \A i \in 1..Len(requests) : ~requests[i].tools
             /\ executed = <<>>
             /\ response.kind # "clarification"
             /\ pc # "exec")
    /\ [][(variant = "ollama" /\ ~toolsSupported') =>
             /\ \A i \in 1..Len(NewRequests) : ~NewRequests[i].tools
             /\ executed' = executed
             /\ response'.kind # "clarification"
             /\ pc' # "exec"]_vars
    /\ [][(/\ variant \in {"ollama", "gemini"}
           /\ ~toolsEnabled \/ (variant = "ollama" /\ ~toolsSupported)
           /\ pc \in {"request", "retry"}
           /\ backend'.kind = "message") =>
             /\ pc' = "returned"
             /\ response'.kind = "text"]_vars

\* the Ollama session, in the turn after its downgrade, has returned as the
\* answer a response that carried a tool call
C28_Witness ==
    /\ variant = "ollama"
    /\ toolsEnabled
    /\ ~toolsSupported
    /\ sends = 2
    /\ Len(SelectSeq(requests, LAMBDA r : r.retry)) = 1
    /\ ~Last(requests).retry
    /\ backend.kind = "message"
    /\ Len(backend.calls) > 0
    /\ pc = "returned"
    /\ response = TextResponse("ans")

----------------------------------------------------------------------------
(* C29 *)

\* the tools of the catalog that the dispatcher is to execute
DispatchedTools ==
    {azorTools[i] : i \in 1..Len(azorTools)} \ {CLARIFICATION_TOOL_NAME}

\* C29: executeTool takes a call to a tool of the catalog other than
\* request_clarification to the subprocess, and throws 'Unknown tool' only
\* for a name that is not in the catalog.
C29_CatalogToolsAreDispatched ==
    /\ lastTool.name \in DispatchedTools => lastTool.branch = "case"
    /\ lastTool.branch = "default" => lastTool.name \notin DispatchedTools

----------------------------------------------------------------------------
(* generateTitleWithLLM (src/src/utils/errorUtils.ts lines 60-91): a       *)
(* temporary session is created with three arguments, so enableTools has   *)
(* the default of createChatSession, and one sendMessage is made on it.    *)

\* the default of the parameter enableTools of createChatSession
DefaultEnableTools == TRUE

\* the meta-prompt that asks for a title
MetaPrompt == "title"

\* lines 67-75: the temporary session gets the meta-prompt
GenerateTitleWithLLM ==
    /\ mlpc = "input"
    /\ sends = 0
    /\ currentInput' = MetaPrompt
    /\ mlpc' = "send"
    /\ UNCHANGED <<sessionVars, callVars, logVars, clarificationRounds, sends, lastTurn>>
    /\ UNCHANGED <<markVars, sideVars>>

\* lines 77-90: the text of the response is cleaned and returned as the
\* title when it is not empty; null is returned otherwise, and when
\* sendMessage has thrown
GenerateTitleReturn ==
    /\ mlpc = "await"
    /\ pc \in {"returned", "thrown"}
    /\ mlpc' = (IF pc = "returned" /\ response.text # "" THEN "title" ELSE "null")
    /\ UNCHANGED <<sessionVars, callVars, logVars, currentInput, clarificationRounds, sends,
                   lastTurn>>
    /\ UNCHANGED <<markVars, sideVars>>

----------------------------------------------------------------------------
(* C30 *)

\* C30: the temporary session of the title generation sends no tool
\* declarations, executes no tool and returns no clarification request.
C30_TitleGenerationUsesNoTools ==
    /\ \A i \in 1..Len(requests) : ~requests[i].tools
    /\ executed = <<>>
    /\ response.kind # "clarification"

----------------------------------------------------------------------------
(* C31 *)

\* both callers called connect and saw it resolve: the second began before
\* the connect of the first had completed, as connected is not reset here
BothConnectedThemselves ==
    \A t \in 1..NumTasks : tasks[t].pc \in {"calling", "done"} /\ tasks[t].obj # 0

\* C31: when every caller began before the client was connected and every
\* connect resolved, one Client and one connection exist and every caller
\* has called the tool on that Client.
C31_ConcurrentCallersShareOneClient ==
    BothConnectedThemselves =>
        /\ created = 1
        /\ Cardinality(live) = 1
        /\ \A t \in 1..NumTasks : tasks[t].used = client /\ tasks[t].used \in live

----------------------------------------------------------------------------
(* C32 *)

\* C32: whenever mainLoop waits for a line at the main prompt and a prompt
\* has been sent to the session, the session has a title, also when the
\* first turn ended in a cancelled or an exhausted clarification round.
C32_PromptedSessionIsTitled ==
    (mlpc = "input" /\ sends > 0) => title # NoTitle

----------------------------------------------------------------------------
(* C33 *)

\* C33: a step of mainLoop that calls generateTitleFromPrompt and setTitle
\* ends a turn that began with an empty session, hands over the line of
\* that turn, is the only such step of the session, and replaces no title
\* that /session rename has set.
C33_AutomaticTitleOnlyOnFirstPrompt ==
    [][generated' # generated =>
          /\ sendsAtInput = 0
          /\ generated' = <<userInput>>
          /\ title'.by = "auto"
          /\ title.by # "user"]_vars

----------------------------------------------------------------------------
(* C34 *)

\* the turns that finish without an exception
FinishedTurns == {"answer", "cancelled", "exhausted"}

\* C34: during a turn no saveToFile has been made, and when the turn has
\* finished without an exception and the next line is awaited exactly one
\* has been made; while mainLoop is in the loop no cleanupAndSave has been
\* made, and when it has left the loop, by the exit command, an
\* interrupted prompt or an error, exactly one has been made.
C34_OneSavePerTurnOneCleanupPerExit ==
    /\ mlpc \in {"send", "await", "clarify"} => saved = 0
    /\ (mlpc = "input" /\ lastTurn \in FinishedTurns) => saved = 1
    /\ mlpc # "exited" => cleanups = 0
    /\ mlpc = "exited" =>
          /\ cleanups = 1
          /\ lastTurn \in {"exit", "interrupted", "error"}

\* a turn has ended with the clarification rounds exhausted and has been
\* saved, and the loop has then been left at an interrupted main prompt
C34_Witness ==
    /\ mlpc = "exited"
    /\ lastTurn = "interrupted"
    /\ clarificationRounds > MAX_CLARIFICATION_ROUNDS
    /\ saved = 1
    /\ cleanups = 1

----------------------------------------------------------------------------
(* C35 *)

\* the lines /assistant switch <id> typed, each with the assistant it names
SwitchLines ==
    {[line |-> "/assistant switch azor", id |-> "azor"],
     [line |-> "/assistant Switch BIZNESMEN", id |-> "biznesmen"],
     [line |-> "/assistant switch nobody", id |-> "nobody"],
     [line |-> "/assistant switch constructor", id |-> "constructor"]}

\* C35: handleCommand returns false for every /assistant switch <id>; with
\* the id of the active assistant the assistant and the session stay as
\* they are; with an id that is no key of the registry an error is printed
\* and the active assistant and the history stay as they are.
C35_SwitchToSameOrUnknownAssistant ==
    [][\A l \in SwitchLines :
          (commands' # commands /\ userInput' = l.line) =>
              /\ shouldExit' = "false"
              /\ l.id = assistantId =>
                    /\ assistantId' = assistantId
                    /\ switchedAt' = switchedAt
              /\ l.id \notin AssistantIds =>
                    /\ printed' \in ErrorBranches
                    /\ assistantId' = assistantId
                    /\ switchedAt' = switchedAt
                    /\ history' = history]_vars

----------------------------------------------------------------------------
(* C36 *)

\* the lines typed whose first word, in lower case, is /exit or /quit
ExitLines == {"/exit", "/QUIT now"}

\* the lines typed whose first word is no command
UnknownLines == {"/foo", "/exits"}

\* C36: handleCommand returns true for the lines whose first word, in lower
\* case, is /exit or /quit and false for every other line, and a line whose
\* first word is no command leaves the session, its title and its assistant
\* as they are.
C36_TrueOnlyForExitAndQuit ==
    [][commands' # commands =>
          /\ shouldExit' = (IF userInput' \in ExitLines THEN "true" ELSE "false")
          /\ userInput' \in UnknownLines =>
                /\ printed' = "unknown command"
                /\ UNCHANGED <<sessionVars, title, generated, assistantId, switchedAt>>]_vars

\* /QUIT now has been typed after a turn: handleCommand has returned true
\* and the loop has been left
C36_Witness ==
    /\ userInput = "/QUIT now"
    /\ shouldExit = "true"
    /\ printed = "exit"
    /\ mlpc = "exited"
    /\ sends > 0

----------------------------------------------------------------------------
\* a session constructed by createChatSession with one of the given histories
InitFrom(variants, priors, fileSets, catalogs) ==
    /\ variant \in variants
    /\ systemInstruction \in SystemInstructions
    /\ toolsEnabled \in BOOLEAN
    /\ toolsSupported = TRUE
    /\ history \in priors
    /\ nativeHistory = createChatSession(variant, history)
    /\ ollamaMessages = <<>>
    /\ pendingClarification = ""
    /\ pc = "idle"
    /\ toolCalls = <<>>
    /\ callIdx = 0
    /\ toolMessages = <<>>
    /\ clarificationQuestion = ""
    /\ round = 0
    /\ batches = 0
    /\ response = NoResponse
    /\ requests = <<>>
    /\ executed = <<>>
    /\ unsupportedSeen = FALSE
    /\ backend = NoAnswer
    /\ mlpc = "input"
    /\ currentInput = ""
    /\ clarificationRounds = 0
    /\ sends = 0
    /\ lastTurn = "none"
    /\ histLen = Len(history)
    /\ sendsAtInput = 0
    /\ switchedAt = <<>>
    /\ userInput = ""
    /\ isFirstMessage = FALSE
    /\ title = NoTitle
    /\ generated = <<>>
    /\ saved = 0
    /\ cleanups = 0
    /\ shouldExit = "nothing"
    /\ assistantId = DefaultAssistant
    /\ printed = "nothing"
    /\ commands = 0
    /\ McpInit
    /\ ServerInit(fileSets)
    /\ AdapterInit(catalogs)

\* a new conversation
Init == InitFrom(Variants, {<<>>}, {{}}, {<<>>})

\* a session constructed on a persona switch or on loading a saved conversation
InitSeed == InitFrom(Variants, PriorHistories, {{}}, {<<>>})

\* mainLoop over a session of any backend
InitLoop == InitFrom({"any"}, {<<>>}, {{}}, {<<>>})

Next ==
    \/ MainLoopInput
    \/ MainLoopResponse
    \/ MainLoopClarification
    \/ MainLoopCancel
    \/ MainLoopCatch
    \/ OllamaSendMessage
    \/ OllamaResponseOk
    \/ OllamaResponseUnsupported
    \/ OllamaResponseError
    \/ OllamaRetryOk
    \/ OllamaRetryError
    \/ OllamaClarificationCall
    \/ OllamaExecuteTool
    \/ GeminiSendMessage
    \/ GeminiResponseOk
    \/ GeminiResponseError
    \/ GeminiExecuteTool
    \/ LlamaSendMessage
    \/ LlamaClarificationHandler
    \/ LlamaToolHandler
    \/ LlamaPromptReturn
    \/ LlamaPromptError

Spec == Init /\ [][Next]_vars

SpecSeed == InitSeed /\ [][Next]_vars

\* the conversation with /assistant switch among the lines typed
NextSwitch ==
    \/ Next
    \/ MainLoopAssistantSwitch

SpecSwitch == Init /\ [][NextSwitch]_vars

\* mainLoop with the commands among the lines typed, over a session of any
\* backend
NextMain ==
    \/ MainLoopInput
    \/ MainLoopResponse
    \/ MainLoopClarification
    \/ MainLoopCancel
    \/ MainLoopCatch
    \/ SessionSendMessage
    \/ MainLoopCommand
    \/ MainLoopEmptyInput
    \/ MainLoopInterrupt

SpecMain == InitLoop /\ [][NextMain]_vars

\* the temporary session of the title generation
InitTitle == InitFrom(Variants, {<<>>}, {{}}, {<<>>}) /\ toolsEnabled = DefaultEnableTools

NextTitle ==
    \/ GenerateTitleWithLLM
    \/ GenerateTitleReturn
    \/ OllamaSendMessage
    \/ OllamaResponseOk
    \/ OllamaResponseUnsupported
    \/ OllamaResponseError
    \/ OllamaRetryOk
    \/ OllamaRetryError
    \/ OllamaClarificationCall
    \/ OllamaExecuteTool
    \/ GeminiSendMessage
    \/ GeminiResponseOk
    \/ GeminiResponseError
    \/ GeminiExecuteTool
    \/ LlamaSendMessage
    \/ LlamaClarificationHandler
    \/ LlamaToolHandler
    \/ LlamaPromptReturn
    \/ LlamaPromptError

SpecTitle == InitTitle /\ [][NextTitle]_vars

NextLoop ==
    \/ MainLoopInput
    \/ MainLoopResponse
    \/ MainLoopClarification
    \/ MainLoopCancel
    \/ MainLoopCatch
    \/ SessionSendMessage

\* the MCP client alone
InitMcp == InitFrom({"none"}, {<<>>}, {{}}, {<<>>}) /\ toolsEnabled

NextMcp ==
    \/ McpConnect
    \/ McpConnectOk
    \/ McpConnectFail
    \/ McpDisconnect
    \/ McpCloseOk
    \/ McpCloseFail
    \/ McpExecuteTool
    \/ McpCallReturn

SpecMcp == InitMcp /\ [][NextMcp]_vars

\* executeTool calls of several callers on the MCP client
NextMcpTasks ==
    \E t \in 1..NumTasks :
        \/ TaskExecuteTool(t)
        \/ TaskConnectOk(t)
        \/ TaskConnectFail(t)
        \/ TaskCallReturn(t)

SpecMcpTasks == InitMcp /\ [][NextMcpTasks]_vars

\* the tools of the MCP server alone, over a directory with some files
InitServer == InitFrom({"none"}, {<<>>}, SUBSET ExistingPaths, {<<>>}) /\ toolsEnabled

NextServer ==
    \/ DeleteThread
    \/ GetThreadData

SpecServer == InitServer /\ [][NextServer]_vars

\* the schema adapters alone, over the catalogs
InitAdapters == InitFrom({"none"}, {<<>>}, {{}}, Catalogs) /\ toolsEnabled

NextAdapters ==
    \/ BuildToolConfig
    \/ ConvertToLlamaTools
    \/ ConvertToOllamaTools

SpecAdapters == InitAdapters /\ [][NextAdapters]_vars

\* every sendMessage returns or throws, and the user answers every prompt
SpecLoop == InitLoop /\ [][NextLoop]_vars /\ WF_vars(NextLoop)

====
